---- MODULE Spec2Model ----
(***************************************************************************)
(* Command-authorization and execution pipeline of the Windows Command     *)
(* Line MCP Server.  Two server variants live in the repository:           *)
(*   - the modular server (createMCPServer: SecurityManager allowlist,     *)
(*     SystemInfoManager, ProjectManager and the tools/ handlers);         *)
(*   - the single-file server of src/index.ts (dangerous-pattern guard,    *)
(*     platform translation, Windows bridge).                              *)
(* Strings are TLA+ strings; a character is a string of length one.        *)
(***************************************************************************)
EXTENDS Integers, Sequences, FiniteSets, TLC

(***************************************************************************)
(* JavaScript string primitives used by the code.                          *)
(***************************************************************************)

\* s.charAt(i - 1)
CharAt(s, i) == SubSeq(s, i, i)

\* String.prototype.toLowerCase on one character (ASCII letters).
LowerChar(c) ==
  CASE c = "A" -> "a" [] c = "B" -> "b" [] c = "C" -> "c" [] c = "D" -> "d"
    [] c = "E" -> "e" [] c = "F" -> "f" [] c = "G" -> "g" [] c = "H" -> "h"
    [] c = "I" -> "i" [] c = "J" -> "j" [] c = "K" -> "k" [] c = "L" -> "l"
    [] c = "M" -> "m" [] c = "N" -> "n" [] c = "O" -> "o" [] c = "P" -> "p"
    [] c = "Q" -> "q" [] c = "R" -> "r" [] c = "S" -> "s" [] c = "T" -> "t"
    [] c = "U" -> "u" [] c = "V" -> "v" [] c = "W" -> "w" [] c = "X" -> "x"
    [] c = "Y" -> "y" [] c = "Z" -> "z" [] OTHER -> c

RECURSIVE ToLowerCase(_)
\* String.prototype.toLowerCase
ToLowerCase(s) ==
  IF Len(s) = 0 THEN ""
  ELSE IF Len(s) = 1 THEN LowerChar(s)
  ELSE ToLowerCase(SubSeq(s, 1, Len(s) \div 2))
       \o ToLowerCase(SubSeq(s, Len(s) \div 2 + 1, Len(s)))

\* s.startsWith(p)
StartsWith(s, p) == Len(p) <= Len(s) /\ SubSeq(s, 1, Len(p)) = p

\* s.indexOf(p) + 1 (0 when p does not occur in s)
IndexOf(s, p) ==
  LET hits == {i \in 1..(Len(s) - Len(p) + 1) : SubSeq(s, i, i + Len(p) - 1) = p}
  IN  IF hits = {} THEN 0 ELSE CHOOSE i \in hits : \A j \in hits : i <= j

\* s.includes(p)
Includes(s, p) == \E i \in 1..(Len(s) - Len(p) + 1) : SubSeq(s, i, i + Len(p) - 1) = p

RECURSIVE Split(_, _)
\* s.split(sep) for a non-empty separator: the pieces between occurrences.
Split(s, sep) ==
  LET i == IndexOf(s, sep)
  IN  IF i = 0 THEN <<s>>
      ELSE <<SubSeq(s, 1, i - 1)>> \o Split(SubSeq(s, i + Len(sep), Len(s)), sep)

\* JavaScript `a || b` on strings: the empty string is falsy.
OrElse(s, d) == IF s = "" THEN d ELSE s

\* An optional value (undefined or a value): <<>> or <<v>>.
None == <<>>
Some(v) == <<v>>
IsSome(o) == o # <<>>

\* Array.prototype.filter
Filter(seq, Keep(_)) == SelectSeq(seq, Keep)

\* Array.prototype.some
SomeElem(seq, Test(_)) == \E i \in 1..Len(seq) : Test(seq[i])

RECURSIVE Join(_, _)
\* Array.prototype.join(sep)
Join(seq, sep) ==
  IF Len(seq) = 0 THEN ""
  ELSE IF Len(seq) = 1 THEN seq[1]
  ELSE seq[1] \o sep \o Join(Tail(seq), sep)

(***************************************************************************)
(* State.                                                                  *)
(***************************************************************************)
VARIABLES
  argv,            \* process.argv.slice(2) of the modular server
  configFile,      \* config.json in the working directory
  allowedCommands, \* SecurityManager.allowedCommands
  procState,       \* "running", or "exit1" after process.exit(1)
  projects,        \* names of the directories under SAFE_PROJECT_ROOT
  isWindows,       \* src/index.ts: platform() === 'win32'
  isContainer,     \* src/index.ts: checkIfInContainer()
  BRIDGE_ENABLED,  \* src/index.ts: ENABLE_WINDOWS_BRIDGE === 'true'
  pc,              \* "idle", "pending" (a request is being handled), "done"
  req,             \* the tool invocation being handled
  result,          \* the tool result of the invocation (None until produced)
  spawns,          \* the child processes spawned for the invocation
  guardLog,        \* the guard evaluations made for the invocation
  clock,           \* Date.now()
  files,           \* the files of os.tmpdir()
  ps,              \* the executePowerShell invocations that overlap in time
  bridgeHost,      \* the bridge server on the Windows host, as one request sees it
  cp               \* the createProject invocations that overlap in time

vars == <<argv, configFile, allowedCommands, procState, projects, isWindows,
          isContainer, BRIDGE_ENABLED, pc, req, result, spawns, guardLog,
          clock, files, ps, bridgeHost, cp>>

\* The state of overlapping executePowerShell invocations.
psVars == <<clock, files, ps>>

\* The bridge host before a request reaches it.
BridgeHostIdle == [pc |-> "idle", post |-> <<>>, ran |-> <<>>, response |-> <<>>]

\* The bridge host and the overlapping createProject invocations.
hostVars == <<bridgeHost, cp>>

(***************************************************************************)
(* Startup of the modular server: loadConfiguration, SecurityManager,      *)
(* createMCPServer.                                                        *)
(***************************************************************************)

DEFAULT_ALLOWED_COMMANDS ==
  << "dir", "echo", "whoami", "hostname", "systeminfo", "ver",
     "ipconfig", "ping", "tasklist", "time", "date", "type",
     "find", "findstr", "where", "help", "netstat", "sc",
     "schtasks", "powershell", "powershell.exe",
     "npm", "yarn", "node", "git", "code",
     "python", "pip", "nvm", "pnpm" >>

\* A parsed configuration value: the JSON literal null, or an object whose
\* allowedCommands key is absent (None) or an array (Some(array)).
EmptyConfig == [isNull |-> FALSE, allowedCommands |-> None]

\* config.json: absent; present but not JSON; or present with a JSON value.
FileMissing == [exists |-> FALSE, parses |-> FALSE, value |-> EmptyConfig]
FileGarbage == [exists |-> TRUE, parses |-> FALSE, value |-> EmptyConfig]
FileOf(v) == [exists |-> TRUE, parses |-> TRUE, value |-> v]

\* loadConfiguration(): the parsed file, {} when it is missing or JSON.parse throws.
loadConfiguration(file) ==
  IF file.exists
  THEN IF file.parses THEN file.value ELSE EmptyConfig
  ELSE EmptyConfig

\* The constructor with the configuration file taking priority over the
\* provided list.
SecurityManagerNew_ConfigFirst(provided, file) ==
  LET config == loadConfiguration(file)
  IN  IF config.isNull
      THEN [threw |-> TRUE, allowedCommands |-> <<>>]
      ELSE IF IsSome(config.allowedCommands)
      THEN [threw |-> FALSE, allowedCommands |-> config.allowedCommands[1]]
      ELSE IF IsSome(provided)
      THEN [threw |-> FALSE, allowedCommands |-> provided[1]]
      ELSE [threw |-> FALSE, allowedCommands |-> DEFAULT_ALLOWED_COMMANDS]

\* new SecurityManager(allowedCommands?): provided || config.allowedCommands ||
\* DEFAULT_ALLOWED_COMMANDS.  An array is truthy even when empty; reading
\* .allowedCommands of null throws a TypeError (threw).
SecurityManagerNew(provided, file) ==
  LET config == loadConfiguration(file)
  IN  IF IsSome(provided)
      THEN [threw |-> FALSE, allowedCommands |-> provided[1]]
      ELSE IF config.isNull
      THEN [threw |-> TRUE, allowedCommands |-> <<>>]
      ELSE IF IsSome(config.allowedCommands)
      THEN [threw |-> FALSE, allowedCommands |-> config.allowedCommands[1]]
      ELSE [threw |-> FALSE, allowedCommands |-> DEFAULT_ALLOWED_COMMANDS]

NotFlag(arg) == ~StartsWith(arg, "--")

\* createMCPServer(): the arguments that do not start with "--" are the
\* custom allowlist; an empty custom list is passed as undefined.
customAllowedCommands(args) == Filter(args, NotFlag)

createMCPServer(args, file) ==
  LET custom == customAllowedCommands(args)
  IN  SecurityManagerNew(IF Len(custom) > 0 THEN Some(custom) ELSE None, file)

\* runServer(): a throw while creating the server ends in process.exit(1).
runServer(args, file) ==
  LET sm == createMCPServer(args, file)
  IN  [procState |-> IF sm.threw THEN "exit1" ELSE "running",
       allowedCommands |-> sm.allowedCommands]

(***************************************************************************)
(* SecurityManager.                                                        *)
(***************************************************************************)

\* validateCommand comparing the lower-cased base with the entries as written.
validateCommand_CaseSensitive(allowed, command) ==
  LET commandBase == ToLowerCase(Split(command, " ")[1])
      Matches(cmd) == commandBase = cmd
  IN  IF ~SomeElem(allowed, Matches)
      THEN [isValid |-> FALSE,
            reason |-> "Command '" \o commandBase \o "' is not in the allowed list"]
      ELSE [isValid |-> TRUE, reason |-> ""]

\* SecurityManager.validateCommand(command) against the list `allowed`.
validateCommand(allowed, command) ==
  LET commandBase == ToLowerCase(Split(command, " ")[1])
      Matches(cmd) == commandBase = ToLowerCase(cmd)
  IN  IF ~SomeElem(allowed, Matches)
      THEN [isValid |-> FALSE,
            reason |-> "Command '" \o commandBase \o "' is not in the allowed list"]
      ELSE [isValid |-> TRUE, reason |-> ""]

\* A validateCommand that stores the list lower-cased for later calls.
allowedAfterValidate_Normalised(allowed, command) ==
  [i \in 1..Len(allowed) |-> ToLowerCase(allowed[i])]

\* this.allowedCommands after validateCommand(command): some(), split() and
\* toLowerCase() build new values and assign nothing.
allowedAfterValidate(allowed, command) == allowed

RECURSIVE allowedAfter(_, _)
\* this.allowedCommands after the guard evaluations gl, in their order.
allowedAfter(allowed, gl) ==
  IF gl = <<>> THEN allowed
  ELSE allowedAfter(allowedAfterValidate(allowed, Head(gl).arg), Tail(gl))

\* SecurityManager.getAllowedCommands()
getAllowedCommands(allowed) == allowed

(***************************************************************************)
(* Child processes.  What a child does is outside the program: it exits 0, *)
(* exits non-zero, cannot be started, or is still running when the timeout *)
(* option expires (possible only when a positive timeout is passed; Node   *)
(* treats a timeout of 0 or an absent timeout as no timeout).              *)
(***************************************************************************)

Outputs == {[stdout |-> "out", stderr |-> ""], [stdout |-> "", stderr |-> "warn"]}

\* The timeout option of a spawn bounds the child's lifetime.
Bounded(timeout) == IsSome(timeout) /\ timeout[1] > 0

ExecOutcomes(timeout) ==
  {[kind |-> "ok", stdout |-> o.stdout, stderr |-> o.stderr] : o \in Outputs}
  \cup {[kind |-> "nonzero", stdout |-> "", stderr |-> "warn"],
        [kind |-> "spawnfail", stdout |-> "", stderr |-> ""]}
  \cup (IF Bounded(timeout)
        THEN {[kind |-> "timeout", stdout |-> "", stderr |-> "warn"]}
        ELSE {})

\* The record kept of one spawned child process: its command line, its
\* timeout option, how it ended and what it wrote to stderr.
Spawn(cmd, timeout, outcome) ==
  [cmd |-> cmd, timeout |-> timeout, kind |-> outcome.kind, stderr |-> outcome.stderr]

\* promisify(exec)(cmd, options): resolves with stdout and stderr when the
\* child exits 0; rejects with exec's error otherwise.  exec's error message
\* is "Command failed: <cmd>\n<stderr>" both for a non-zero exit and for a
\* child killed at the timeout.
execAsync(cmd, outcome) ==
  IF outcome.kind = "ok"
  THEN [ok |-> TRUE, stdout |-> outcome.stdout, stderr |-> outcome.stderr, message |-> ""]
  ELSE [ok |-> FALSE, stdout |-> "", stderr |-> "",
        message |-> IF outcome.kind = "spawnfail"
                    THEN "spawn ENOENT"
                    ELSE "Command failed: " \o cmd \o "\n" \o outcome.stderr]

\* What a manager method hands back: a returned string or a thrown Error's
\* message, with the children it spawned and the guard evaluations it made.
Returned(value, sp, gl) == [threw |-> FALSE, value |-> value, spawns |-> sp, guardLog |-> gl]
Thrown(message, sp, gl) == [threw |-> TRUE, value |-> message, spawns |-> sp, guardLog |-> gl]

\* One evaluation of the guard: the string it was given and its decision.
Guard(arg, allow) == [arg |-> arg, allow |-> allow]

\* JavaScript truthiness of an optional string parameter.
Truthy(opt) == IsSome(opt) /\ opt[1] # ""

(***************************************************************************)
(* SystemInfoManager.                                                      *)
(***************************************************************************)

\* zod: z.number().optional().default(30000)
DefaultTimeout == 30000
schemaTimeout(opt) == IF IsSome(opt) THEN opt[1] ELSE DefaultTimeout

\* A method that builds one command and runs it with execAsync(command): no
\* validation, no options.
UnguardedExec(command, outcome, failPrefix, emptyText) ==
  LET r == execAsync(command, outcome)
      sp == <<Spawn(command, None, outcome)>>
  IN  IF r.ok THEN Returned(OrElse(r.stdout, emptyText), sp, <<>>)
      ELSE Thrown(failPrefix \o r.message, sp, <<>>)

BasicSystemInfo == "System Information:\nHostname: host"

\* SystemInfoManager.getSystemInfo(detail)
getSystemInfo(detail, outcome) ==
  IF detail = "full"
  THEN LET r == execAsync("systeminfo", outcome)
           sp == <<Spawn("systeminfo", None, outcome)>>
       IN  IF r.ok THEN Returned(r.stdout, sp, <<>>)
           ELSE Thrown("Failed to retrieve system information: " \o r.message, sp, <<>>)
  ELSE Returned(BasicSystemInfo, <<>>, <<>>)

\* SystemInfoManager.getNetworkInfo(networkInterface?)
getNetworkInfo(networkInterface, outcome) ==
  IF Truthy(networkInterface)
  THEN UnguardedExec("ipconfig /all | find \"" \o networkInterface[1] \o "\" /i", outcome,
                     "Failed to retrieve network information: ",
                     "Interface \"" \o networkInterface[1] \o "\" not found")
  ELSE LET r == execAsync("ipconfig", outcome)
           sp == <<Spawn("ipconfig", None, outcome)>>
       IN  IF r.ok THEN Returned(r.stdout, sp, <<>>)
           ELSE Thrown("Failed to retrieve network information: " \o r.message, sp, <<>>)

\* SystemInfoManager.listRunningProcesses(filter?)
listRunningProcesses(filter, outcome) ==
  LET command == IF Truthy(filter)
                 THEN "tasklist | findstr /i \"" \o filter[1] \o "\""
                 ELSE "tasklist"
  IN  UnguardedExec(command, outcome, "Failed to list processes: ",
                    "No matching processes found")

\* SystemInfoManager.getServiceInfo(action, serviceName?)
getServiceInfo(action, serviceName, outcome) ==
  IF action = "query" \/ (action = "status" /\ Truthy(serviceName))
  THEN UnguardedExec(IF Truthy(serviceName)
                     THEN "sc query \"" \o serviceName[1] \o "\""
                     ELSE "sc query state= all",
                     outcome, "Failed to get service info: ",
                     "No service information found")
  ELSE Thrown("Failed to get service info: Invalid service action or missing service name",
              <<>>, <<>>)

\* SystemInfoManager.getScheduledTasks(action, taskName?)
getScheduledTasks(action, taskName, outcome) ==
  IF action = "query" \/ (action = "status" /\ Truthy(taskName))
  THEN UnguardedExec(IF Truthy(taskName)
                     THEN "schtasks /query /tn \"" \o taskName[1] \o "\" /fo list /v"
                     ELSE "schtasks /query /fo list /v",
                     outcome, "Failed to get scheduled task info: ",
                     "No scheduled task information found")
  ELSE Thrown("Failed to get scheduled task info: Invalid task action or missing task name",
              <<>>, <<>>)

\* SystemInfoManager.executeCommand(command, timeout)
SIM_executeCommand(allowed, command, timeout, outcome) ==
  LET validation == validateCommand(allowed, command)
      gl == <<Guard(command, validation.isValid)>>
  IN  IF ~validation.isValid THEN Thrown(validation.reason, <<>>, gl)
      ELSE LET r == execAsync(command, outcome)
               sp == <<Spawn(command, Some(timeout), outcome)>>
           IN  IF r.ok
               THEN Returned(OrElse(r.stdout, "Command executed successfully (no output)"), sp, gl)
               ELSE Thrown("Command execution failed: " \o r.message, sp, gl)

\* os.tmpdir()/ps_script_<Date.now()>.ps1
TempScriptPath == "/tmp/ps_script_1700000000000.ps1"

\* SystemInfoManager.executePowerShell(script, timeout): the script is
\* written to the temporary file, run, and the file is unlinked in `finally`.
executePowerShell(allowed, script, timeout, outcome) ==
  LET validation == validateCommand(allowed, "powershell")
      gl == <<Guard("powershell", validation.isValid)>>
      command == "powershell -ExecutionPolicy Bypass -File \"" \o TempScriptPath \o "\""
  IN  IF ~validation.isValid THEN Thrown(validation.reason, <<>>, gl)
      ELSE LET r == execAsync(command, outcome)
               sp == <<Spawn(command, Some(timeout), outcome)>>
           IN  IF r.ok
               THEN Returned(OrElse(r.stdout, "PowerShell script executed successfully (no output)"), sp, gl)
               ELSE Thrown("PowerShell execution failed: " \o r.message, sp, gl)

(***************************************************************************)
(* ProjectManager.                                                         *)
(***************************************************************************)

\* path.join(HOME, 'AIProjects')
SAFE_PROJECT_ROOT == "/home/user/AIProjects"

\* The characters of /^[a-zA-Z0-9_-]+$/
NameAlphabet == "abcdefghijklmnopqrstuvwxyzABCDEFGHIJKLMNOPQRSTUVWXYZ0123456789_-"
NameChars == {CharAt(NameAlphabet, i) : i \in 1..Len(NameAlphabet)}
ValidProjectName(name) ==
  Len(name) > 0 /\ \A i \in 1..Len(name) : CharAt(name, i) \in NameChars

\* ProjectManager.runSafeCommand(command): validates the first
\* space-separated piece, then execAsync(command) with no options; a failed
\* child rejects with exec's own error.
runSafeCommand(allowed, command, outcome) ==
  LET first == Split(command, " ")[1]
      validation == validateCommand(allowed, first)
      gl == <<Guard(first, validation.isValid)>>
  IN  IF ~validation.isValid THEN Thrown(validation.reason, <<>>, gl)
      ELSE LET r == execAsync(command, outcome)
               sp == <<Spawn(command, None, outcome)>>
           IN  IF r.ok THEN Returned(r.stdout, sp, gl) ELSE Thrown(r.message, sp, gl)

\* The commands of createReactProject, createNodeProject, createPythonProject.
ScaffoldCommands(type, projectPath, template) ==
  CASE ToLowerCase(type) = "react" ->
         << IF Truthy(template)
            THEN "npx create-react-app " \o projectPath \o " --template " \o template[1]
            ELSE "npx create-react-app " \o projectPath >>
    [] ToLowerCase(type) = "node" ->
         << "cd " \o projectPath \o " && npm init -y" >>
         \o (IF Truthy(template)
             THEN << "cd " \o projectPath \o " && npm install " \o template[1] >>
             ELSE <<>>)
    [] ToLowerCase(type) = "python" ->
         << "cd " \o projectPath \o " && python -m venv venv" >>
         \o (IF Truthy(template)
             THEN << "cd " \o projectPath \o " && venv/Scripts/pip install " \o template[1] >>
             ELSE <<>>)
    [] OTHER -> <<>>

SupportedType(type) == ToLowerCase(type) \in {"react", "node", "python"}

\* ProjectManager.createProject(type, name, template?): o1 and o2 are what
\* the first and the second scaffolding child do.  `projects` is the set of
\* project directories afterwards.
createProject(allowed, projs, type, name, template, o1, o2) ==
  LET projectPath == SAFE_PROJECT_ROOT \o "/" \o name
      cmds == ScaffoldCommands(type, projectPath, template)
      Fail(m) == m @@ [projects |-> projs \ {name}]
  IN  IF ~ValidProjectName(name)
      THEN Thrown("Invalid project name. Use only alphanumeric characters, underscores, and hyphens.",
                  <<>>, <<>>) @@ [projects |-> projs]
      ELSE IF name \in projs
      THEN Thrown("Project '" \o name \o "' already exists.", <<>>, <<>>)
           @@ [projects |-> projs]
      ELSE IF ~SupportedType(type)
      THEN Fail(Thrown("Unsupported project type: " \o type, <<>>, <<>>))
      ELSE LET r1 == runSafeCommand(allowed, cmds[1], o1)
           IN  IF r1.threw THEN Fail(r1)
               ELSE IF Len(cmds) = 1
               THEN Returned(projectPath, r1.spawns, r1.guardLog)
                    @@ [projects |-> projs \cup {name}]
               ELSE LET r2 == runSafeCommand(allowed, cmds[2], o2)
                        sp == r1.spawns \o r2.spawns
                        gl == r1.guardLog \o r2.guardLog
                    IN  IF r2.threw THEN Fail(Thrown(r2.value, sp, gl))
                        ELSE Returned(projectPath, sp, gl)
                             @@ [projects |-> projs \cup {name}]

(***************************************************************************)
(* Tool handlers of the modular server (tools/*.ts) and the                *)
(* CallToolRequestSchema dispatcher.                                       *)
(***************************************************************************)

TextResult(text) == [isError |-> FALSE, text |-> text]
ErrorResult(text) == [isError |-> TRUE, text |-> text]

\* A dispatcher whose catch answers with a plain text result.
ToolResult_NotAnError(r) == TextResult(IF r.threw THEN "Error: " \o r.value ELSE r.value)

\* try { ... return {content: text} } catch (error) { isError, "Error: " + message }
ToolResult(r) ==
  IF r.threw THEN ErrorResult("Error: " \o r.value) ELSE TextResult(r.value)

\* commandToolHandler
commandToolHandler(allowed, command, timeout, outcome) ==
  SIM_executeCommand(allowed, command, schemaTimeout(timeout), outcome)

\* powershellToolHandler
powershellToolHandler(allowed, script, timeout, outcome) ==
  executePowerShell(allowed, script, schemaTimeout(timeout), outcome)

\* allowedCommandsHandler
allowedCommandsHandler(allowed) ==
  Returned("Allowed commands:\n" \o Join(getAllowedCommands(allowed), "\n"), <<>>, <<>>)

(***************************************************************************)
(* Inputs.                                                                 *)
(***************************************************************************)

MaxArgv == 2      \* number of command-line arguments
MaxArgs == 2      \* number of arguments after a command's first word

ArgvWords == {"--allow-all", "shutdown"}
Argvs == UNION {[1..n -> ArgvWords] : n \in 0..MaxArgv}

ConfigFiles ==
  { FileMissing, FileGarbage,
    FileOf([isNull |-> TRUE, allowedCommands |-> None]),
    FileOf(EmptyConfig),
    FileOf([isNull |-> FALSE, allowedCommands |-> Some(<<>>)]),
    FileOf([isNull |-> FALSE, allowedCommands |-> Some(<<"Echo", "format", "cd">>)]),
    FileOf([isNull |-> FALSE, allowedCommands |-> Some(<<"PowerShell.exe", "dir">>)]) }

FirstWords == {"ECHO", "dir", "dir\t/b", "del", "shutdown", "format", "reg",
               "net", ""}
ArgWords == {"user", "/s"}
Commands ==
  {Join(<<b>> \o a, " ") : b \in FirstWords,
                           a \in UNION {[1..n -> ArgWords] : n \in 0..MaxArgs}}

Timeouts == {None, Some(0), Some(100)}

Request(name, arg, timeout, mode, pname) ==
  [name |-> name, arg |-> arg, timeout |-> timeout, mode |-> mode, pname |-> pname]
NoReq == Request("", None, None, "", "")

Requests ==
  {Request("execute_command", Some(c), t, "", "") : c \in Commands, t \in Timeouts}
  \cup {Request("execute_powershell", Some(sc), t, "", "") :
          sc \in {"Get-Date", "Stop-Computer"}, t \in Timeouts}
  \cup {Request("create_project", tpl, None, ty, nm) :
          tpl \in {None, Some("express")}, ty \in {"node", "React", "go"},
          nm \in {"app", "my app"}}
  \cup {Request("list_running_processes", f, None, "", "") :
          f \in {None, Some("node"), Some("x\" & shutdown /s & \"")}}
  \cup {Request("get_system_info", None, None, d, "") : d \in {"basic", "full"}}
  \cup {Request("get_network_info", n, None, "", "") : n \in {None, Some("eth0")}}
  \cup {Request(tool, n, None, a, "") :
          tool \in {"get_scheduled_tasks", "get_service_info"},
          n \in {None, Some("Backup")}, a \in {"query", "status"}}
  \cup {Request("list_allowed_commands", None, None, "", ""),
        Request("format_disk", None, None, "", "")}

(***************************************************************************)
(* The modular server as a state machine: a request arrives (Receive), its *)
(* handler runs to completion, the result is sent back (Respond).          *)
(***************************************************************************)

Init ==
  /\ argv \in Argvs
  /\ configFile \in ConfigFiles
  /\ allowedCommands = runServer(argv, configFile).allowedCommands
  /\ procState = runServer(argv, configFile).procState
  /\ projects = {}
  /\ isWindows = TRUE
  /\ isContainer = FALSE
  /\ BRIDGE_ENABLED = FALSE
  /\ pc = "idle"
  /\ req = NoReq
  /\ result = None
  /\ spawns = <<>>
  /\ guardLog = <<>>
  /\ clock = 0
  /\ files = {}
  /\ ps = <<>>
  /\ bridgeHost = BridgeHostIdle
  /\ cp = <<>>

Startup == <<argv, configFile, allowedCommands, procState, isWindows,
             isContainer, BRIDGE_ENABLED>>

Receive ==
  /\ procState = "running"
  /\ pc = "idle"
  /\ \E r \in Requests : req' = r
  /\ pc' = "pending"
  /\ result' = None
  /\ spawns' = <<>>
  /\ guardLog' = <<>>
  /\ UNCHANGED <<Startup, projects, psVars, hostVars>>

\* The handler finished with r.
Finish(r) ==
  /\ result' = Some(ToolResult(r))
  /\ spawns' = r.spawns
  /\ guardLog' = r.guardLog
  /\ pc' = "done"
  /\ allowedCommands' = allowedAfter(allowedCommands, r.guardLog)
  /\ UNCHANGED <<argv, configFile, procState, isWindows, isContainer, BRIDGE_ENABLED,
                 req, psVars, hostVars>>

Handling(name) == procState = "running" /\ pc = "pending" /\ req.name = name

CommandTool ==
  /\ Handling("execute_command")
  /\ \E o \in ExecOutcomes(Some(schemaTimeout(req.timeout))) :
       Finish(commandToolHandler(allowedCommands, req.arg[1], req.timeout, o))
  /\ UNCHANGED projects

PowershellTool ==
  /\ Handling("execute_powershell")
  /\ \E o \in ExecOutcomes(Some(schemaTimeout(req.timeout))) :
       Finish(powershellToolHandler(allowedCommands, req.arg[1], req.timeout, o))
  /\ UNCHANGED projects

ProjectTool ==
  /\ Handling("create_project")
  /\ \E o1 \in ExecOutcomes(None), o2 \in ExecOutcomes(None) :
       LET r == createProject(allowedCommands, projects, req.mode, req.pname, req.arg, o1, o2)
       IN  /\ Finish(IF r.threw THEN r
                     ELSE Returned("Project created successfully at: " \o r.value,
                                   r.spawns, r.guardLog))
           /\ projects' = r.projects

SystemInfoTool ==
  /\ Handling("get_system_info")
  /\ \E o \in ExecOutcomes(None) : Finish(getSystemInfo(req.mode, o))
  /\ UNCHANGED projects

NetworkInfoTool ==
  /\ Handling("get_network_info")
  /\ \E o \in ExecOutcomes(None) : Finish(getNetworkInfo(req.arg, o))
  /\ UNCHANGED projects

ProcessListTool ==
  /\ Handling("list_running_processes")
  /\ \E o \in ExecOutcomes(None) : Finish(listRunningProcesses(req.arg, o))
  /\ UNCHANGED projects

TaskInfoTool ==
  /\ Handling("get_scheduled_tasks")
  /\ \E o \in ExecOutcomes(None) : Finish(getScheduledTasks(req.mode, req.arg, o))
  /\ UNCHANGED projects

ServiceInfoTool ==
  /\ Handling("get_service_info")
  /\ \E o \in ExecOutcomes(None) : Finish(getServiceInfo(req.mode, req.arg, o))
  /\ UNCHANGED projects

AllowedCommandsTool ==
  /\ Handling("list_allowed_commands")
  /\ Finish(allowedCommandsHandler(allowedCommands))
  /\ UNCHANGED projects

ToolNames == {"create_project", "execute_command", "execute_powershell",
              "list_running_processes", "get_system_info", "get_network_info",
              "get_scheduled_tasks", "get_service_info", "list_allowed_commands"}

\* default: throw new Error(`Unknown tool: ${name}`), caught by the dispatcher.
UnknownTool ==
  /\ procState = "running" /\ pc = "pending" /\ req.name \notin ToolNames
  /\ Finish(Thrown("Unknown tool: " \o req.name, <<>>, <<>>))
  /\ UNCHANGED projects

\* The result has been sent; the invocation and its result are discarded.
Respond ==
  /\ pc = "done"
  /\ pc' = "idle"
  /\ req' = NoReq
  /\ result' = None
  /\ spawns' = <<>>
  /\ guardLog' = <<>>
  /\ UNCHANGED <<Startup, projects, psVars, hostVars>>

Next ==
  \/ Receive
  \/ CommandTool
  \/ PowershellTool
  \/ ProjectTool
  \/ SystemInfoTool
  \/ NetworkInfoTool
  \/ ProcessListTool
  \/ TaskInfoTool
  \/ ServiceInfoTool
  \/ AllowedCommandsTool
  \/ UnknownTool
  \/ Respond

Spec == Init /\ [][Next]_vars

(***************************************************************************)
(* Properties of the modular server.                                       *)
(***************************************************************************)

\* The text of a command before its first space.
BeforeFirstSpace(c) ==
  IF \E i \in 1..Len(c) : CharAt(c, i) = " "
  THEN SubSeq(c, 1, (CHOOSE i \in 1..Len(c) :
                       /\ CharAt(c, i) = " "
                       /\ \A j \in 1..(i - 1) : CharAt(c, j) # " ") - 1)
  ELSE c

EqualsIgnoreCase(a, b) ==
  Len(a) = Len(b) /\ \A i \in 1..Len(a) : LowerChar(CharAt(a, i)) = LowerChar(CharAt(b, i))

InAllowlist(token) ==
  \E i \in 1..Len(allowedCommands) : EqualsIgnoreCase(token, allowedCommands[i])

Done(name) == pc = "done" /\ req.name = name

\* C1: every child process spawned for a tool invocation was spawned for a
\* string on which the guard had returned Allow.
C1_EverySpawnGuarded ==
  \A i \in 1..Len(spawns) :
    \E j \in 1..Len(guardLog) : guardLog[j].allow /\ guardLog[j].arg = spawns[i].cmd

C2_WitnessAccepted ==
  /\ Done("execute_command")
  /\ req.arg[1] = "ECHO user /s"
  /\ allowedCommands = <<"Echo", "format", "cd">>
  /\ Len(spawns) = 1

Dangerous(c) ==
  \/ ToLowerCase(BeforeFirstSpace(c)) \in {"format", "shutdown", "reg"}
  \/ StartsWith(ToLowerCase(c), "net user")

\* C5: whatever the startup configuration, no child process is spawned for
\* a command that formats a disk, manages users, shuts the system down or
\* modifies the registry.
C5_DangerousNeverExecuted ==
  \A i \in 1..Len(spawns) : ~Dangerous(spawns[i].cmd)

HasAllowAll == \E i \in 1..Len(argv) : argv[i] = "--allow-all"
NotAllowAll(arg) == arg # "--allow-all"

\* C6: started with --allow-all, the policy differs from the one built
\* from the same arguments without the flag, and it admits commands whose
\* base token is in neither the command-line list nor the config list.
C6_AllowAllOverrides ==
  (Done("execute_command") /\ HasAllowAll) =>
    /\ allowedCommands # runServer(Filter(argv, NotAllowAll), configFile).allowedCommands
    /\ guardLog[1].allow

C8_EverySpawnBounded ==
  \A i \in 1..Len(spawns) :
    /\ Bounded(spawns[i].timeout)
    /\ spawns[i].timeout = Some(IF IsSome(req.timeout) THEN req.timeout[1] ELSE 30000)

(***************************************************************************)
(* Regular expressions of src/index.ts.  A pattern is a sequence of        *)
(* elements: "start" (^), "end" ($), "lit" (a literal), "ws*" and "ws+"    *)
(* (\s* and \s+), "quote" (the group ("|')) and "wb" (\b).  The subject    *)
(* and the literals reach MatchEnd in lower case.  In every pattern of the *)
(* code a whitespace run is followed by a character that is not            *)
(* whitespace, so the greedy run is the only way to match.                 *)
(***************************************************************************)

IsSpace(c) == c \in {" ", "\t", "\n", "\r"}
IsWordChar(c) == c \in NameChars \ {"-"}

Lit(v) == [t |-> "lit", v |-> v]
El(t) == [t |-> t, v |-> ""]

\* The first position at or after p that holds no whitespace.
SkipSpaces(s, p) ==
  CHOOSE q \in p..(Len(s) + 1) :
    /\ \A k \in p..(q - 1) : IsSpace(CharAt(s, k))
    /\ (q = Len(s) + 1 \/ ~IsSpace(CharAt(s, q)))

\* \b at the boundary before position p.
WordBoundary(s, p) ==
  LET before == p > 1 /\ IsWordChar(CharAt(s, p - 1))
      after == p <= Len(s) /\ IsWordChar(CharAt(s, p))
  IN  before # after

RECURSIVE MatchEnd(_, _, _, _)
\* The position after the match of pat[k..] starting at p, or 0.
MatchEnd(s, p, pat, k) ==
  IF k > Len(pat) THEN p
  ELSE LET e == pat[k] IN
    CASE e.t = "start" -> IF p = 1 THEN MatchEnd(s, p, pat, k + 1) ELSE 0
      [] e.t = "end" -> IF p = Len(s) + 1 THEN MatchEnd(s, p, pat, k + 1) ELSE 0
      [] e.t = "lit" ->
           IF /\ p + Len(e.v) - 1 <= Len(s)
              /\ SubSeq(s, p, p + Len(e.v) - 1) = e.v
           THEN MatchEnd(s, p + Len(e.v), pat, k + 1) ELSE 0
      [] e.t = "ws*" -> MatchEnd(s, SkipSpaces(s, p), pat, k + 1)
      [] e.t = "ws+" ->
           IF SkipSpaces(s, p) > p THEN MatchEnd(s, SkipSpaces(s, p), pat, k + 1) ELSE 0
      [] e.t = "quote" ->
           IF p <= Len(s) /\ CharAt(s, p) \in {"\"", "'"}
           THEN MatchEnd(s, p + 1, pat, k + 1) ELSE 0
      [] e.t = "wb" -> IF WordBoundary(s, p) THEN MatchEnd(s, p, pat, k + 1) ELSE 0

\* The alternatives with their literals in lower case.
LowerAlts(alts) ==
  [a \in 1..Len(alts) |->
     [k \in 1..Len(alts[a]) |-> [t |-> alts[a][k].t, v |-> ToLowerCase(alts[a][k].v)]]]

\* The alternatives are tried in order: the first that matches at p.
FirstAlt(ls, la, p) ==
  CHOOSE b \in 1..Len(la) :
    /\ MatchEnd(ls, p, la[b], 1) # 0
    /\ \A c \in 1..(b - 1) : MatchEnd(ls, p, la[c], 1) = 0

\* The match of alternative a at p.
MatchOf(ls, la, p, a) ==
  [found |-> TRUE, from |-> p, to |-> MatchEnd(ls, p, la[a], 1), alt |-> a]

\* The match at the leftmost of the positions where an alternative matches.
LeftmostMatch(ls, la, starts) ==
  IF starts = {} THEN [found |-> FALSE, from |-> 0, to |-> 0, alt |-> 0]
  ELSE MatchOf(ls, la, CHOOSE q \in starts : \A r \in starts : q <= r,
               FirstAlt(ls, la, CHOOSE q \in starts : \A r \in starts : q <= r))

\* regex.exec on the lower-cased subject ls and alternatives la.
ExecLower(ls, la) ==
  LeftmostMatch(ls, la, {p \in 1..(Len(ls) + 1) :
                           \E a \in 1..Len(la) : MatchEnd(ls, p, la[a], 1) # 0})

\* regex.exec(s) for the alternatives alts under the /i flag (tried in order
\* at each start position, leftmost start first): [found, from, to, alt].
\* Matching ignoring case is matching the lower-cased literals against the
\* lower-cased subject; the positions are those of s.
RegexExec(s, alts) == ExecLower(ToLowerCase(s), LowerAlts(alts))

\* s.replace(regex, replacement): the first match replaced.
ReplaceFirst(s, m, replacement) ==
  IF m.found
  THEN SubSeq(s, 1, m.from - 1) \o replacement \o SubSeq(s, m.to, Len(s))
  ELSE s

(***************************************************************************)
(* src/index.ts: executeCommand (bridge, direct execution on Windows,      *)
(* translation and execution elsewhere).                                   *)
(***************************************************************************)

Rule(win, linux) == [win |-> win, linux |-> linux]

\* commandMappings, in the order of Object.entries.
commandMappings ==
  << Rule("dir", Some("ls -la")), Rule("type", Some("cat")), Rule("copy", Some("cp")),
     Rule("move", Some("mv")), Rule("del", Some("rm")), Rule("md", Some("mkdir")),
     Rule("rd", Some("rmdir")), Rule("echo", Some("echo")), Rule("cls", Some("clear")),
     Rule("ipconfig", Some("ip addr")), Rule("tasklist", Some("ps aux")),
     Rule("systeminfo", Some("uname -a && lscpu && free -h")),
     Rule("net user", None), Rule("reg", None) >>

\* /cmd\.exe\s+\/c\s+/i
CmdExeRegex == << <<Lit("cmd.exe"), El("ws+"), Lit("/c"), El("ws+")>> >>
\* /powershell\.exe\s+-Command\s+("|')/i
PowershellRegex ==
  << <<Lit("powershell.exe"), El("ws+"), Lit("-Command"), El("ws+"), El("quote")>> >>
\* /("|')$/
TrailingQuoteRegex == << <<El("quote"), El("end")>> >>

\* modifiedCmd.replace(regex, replacement)
Replace(s, alts, replacement) == ReplaceFirst(s, RegexExec(s, alts), replacement)

\* if (modifiedCmd !== command) the trailing quote is removed
StripTrailingQuote(command, modifiedCmd) ==
  IF modifiedCmd # command THEN Replace(modifiedCmd, TrailingQuoteRegex, "") ELSE modifiedCmd

\* The wrapper stripping of executeCommand.
StripWrappers(command) ==
  StripTrailingQuote(command,
                     Replace(Replace(command, CmdExeRegex, ""), PowershellRegex, ""))

\* new RegExp(`(^|&&|\\|\\|)\\s*${winCmd}\\b`, 'i')
cmdRegex(winCmd) ==
  << <<El("start"), El("ws*"), Lit(winCmd), El("wb")>>,
     <<Lit("&&"), El("ws*"), Lit(winCmd), El("wb")>>,
     <<Lit("||"), El("ws*"), Lit(winCmd), El("wb")>> >>

\* The text of the group $1 of a match of cmdRegex.
Group1(m) == CASE m.alt = 2 -> "&&" [] m.alt = 3 -> "||" [] OTHER -> ""

\* modifiedCmd.replace(cmdRegex, `$1 ${linuxCmd}`), m the match of cmdRegex
ApplyRule(modifiedCmd, m, linuxCmd) ==
  ReplaceFirst(modifiedCmd, m, Group1(m) \o " " \o linuxCmd)

\* String(linuxCmd) inside the template literal
TargetText(linux) == IF IsSome(linux) THEN linux[1] ELSE "null"

RECURSIVE TranslateFrom(_, _)
\* The loop over commandMappings from entry k on: the translated command,
\* or the rule whose null target the command contains.
TranslateFrom(modifiedCmd, k) ==
  IF k > Len(commandMappings)
  THEN [rejected |-> FALSE, cmd |-> modifiedCmd, token |-> ""]
  ELSE IF /\ ~IsSome(commandMappings[k].linux)
          /\ Includes(ToLowerCase(modifiedCmd), ToLowerCase(commandMappings[k].win))
  THEN [rejected |-> TRUE, cmd |-> modifiedCmd, token |-> commandMappings[k].win]
  ELSE IF RegexExec(modifiedCmd, cmdRegex(commandMappings[k].win)).found
  THEN TranslateFrom(ApplyRule(modifiedCmd,
                               RegexExec(modifiedCmd, cmdRegex(commandMappings[k].win)),
                               TargetText(commandMappings[k].linux)),
                     k + 1)
  ELSE TranslateFrom(modifiedCmd, k + 1)

\* The translation of executeCommand on a non-Windows host.
Translate(command) == TranslateFrom(StripWrappers(command), 1)

RECURSIVE JsonChars(_)
\* The characters of a JSON string literal (JSON.stringify of a string).
JsonChars(s) ==
  IF Len(s) = 0 THEN ""
  ELSE IF Len(s) = 1
  THEN CASE s = "\"" -> "\\\"" [] s = "\\" -> "\\\\" [] s = "\t" -> "\\t"
         [] s = "\n" -> "\\n" [] OTHER -> s
  ELSE JsonChars(SubSeq(s, 1, Len(s) \div 2))
       \o JsonChars(SubSeq(s, Len(s) \div 2 + 1, Len(s)))

\* JSON.stringify({ timeout }) for options = { timeout }, {} otherwise.
JsonOptions(timeout) ==
  IF IsSome(timeout) THEN "{\"timeout\":" \o ToString(timeout[1]) \o "}" ELSE "{}"

BRIDGE_SERVER_HOST == "127.0.0.1"
BRIDGE_SERVER_PORT == "3099"

\* curlCommand of requestWindowsCommand
curlCommand(command, timeout) ==
  "curl -s -X POST -H \"Content-Type: application/json\" -d '"
  \o "{\"command\":\"" \o JsonChars(command) \o "\",\"options\":" \o JsonOptions(timeout) \o "}"
  \o "' http://" \o BRIDGE_SERVER_HOST \o ":" \o BRIDGE_SERVER_PORT \o "/execute"

\* What the bridge request comes back with: curl fails (the host cannot be
\* reached), a JSON envelope {output, stderr} ("json") or {error} ("error"),
\* or a body that is not JSON ("text").
BridgeReplies ==
  { [kind |-> "unreachable", output |-> None, error |-> None],
    [kind |-> "json", output |-> Some("bridge out"), error |-> None],
    [kind |-> "json", output |-> Some(""), error |-> None],
    [kind |-> "error", output |-> None, error |-> Some("Command not allowed")],
    [kind |-> "text", output |-> Some("Not found"), error |-> None] }

\* requestWindowsCommand whose catch answers with an error envelope.
requestWindowsCommand_NoNull(bridgeEnabled, command, timeout, reply) ==
  IF ~bridgeEnabled THEN [value |-> None, spawns |-> <<>>]
  ELSE IF reply.kind = "unreachable"
  THEN [value |-> Some([output |-> None, error |-> Some("Failed to connect")]),
        spawns |-> <<Spawn(curlCommand(command, timeout), None, [kind |-> "unreachable", stderr |-> ""])>>]
  ELSE [value |-> Some([output |-> reply.output, error |-> reply.error]),
        spawns |-> <<Spawn(curlCommand(command, timeout), None, [kind |-> reply.kind, stderr |-> ""])>>]

\* requestWindowsCommand(command, options): null (None), or the parsed reply.
\* The curl child is recorded with what it came back with.
requestWindowsCommand(bridgeEnabled, command, timeout, reply) ==
  IF ~bridgeEnabled THEN [value |-> None, spawns |-> <<>>]
  ELSE IF reply.kind = "unreachable"
  THEN [value |-> None,
        spawns |-> <<Spawn(curlCommand(command, timeout), None, [kind |-> "unreachable", stderr |-> ""])>>]
  ELSE [value |-> Some([output |-> reply.output, error |-> reply.error]),
        spawns |-> <<Spawn(curlCommand(command, timeout), None, [kind |-> reply.kind, stderr |-> ""])>>]

\* execSync(cmd, options): the child's stdout, or the thrown error's message.
execSync(cmd, outcome, shell) ==
  IF outcome.kind = "ok"
  THEN [ok |-> TRUE, stdout |-> outcome.stdout, message |-> ""]
  ELSE [ok |-> FALSE, stdout |-> "",
        message |-> CASE outcome.kind = "timeout" -> "spawnSync " \o shell \o " ETIMEDOUT"
                      [] outcome.kind = "spawnfail" -> "spawnSync " \o shell \o " ENOENT"
                      [] OTHER -> "Command failed: " \o cmd \o "\n" \o outcome.stderr]

\* os.platform() of a host that is not Windows
HostPlatform == "linux"

CompatibilityNote ==
  "\n\nNote: This server is designed for Windows environments but is running in "
  \o HostPlatform \o ". Some commands may not be compatible."

\* return execSync(command, options) on Windows: a failure is thrown.
DirectResult(r, sp) ==
  IF r.ok THEN Returned(r.stdout, sp, <<>>) ELSE Thrown(r.message, sp, <<>>)

\* try { ... return execSync(modifiedCmd, options) } catch (error) { return
\* Buffer.from(`Command execution failed: ...`) }
CaughtResult(r, sp) ==
  IF r.ok THEN Returned(r.stdout, sp, <<>>)
  ELSE Returned("Command execution failed: Error: " \o r.message \o CompatibilityNote,
                sp, <<>>)

\* The non-Windows branch of executeCommand once the command is translated.
runTranslated(tr, timeout, outcome, before) ==
  IF tr.rejected
  THEN Returned("Command execution failed: Error: The command '" \o tr.token
                \o "' is not supported in Linux environment" \o CompatibilityNote,
                before, <<>>)
  ELSE CaughtResult(execSync(tr.cmd, outcome, "/bin/sh"),
                    before \o <<Spawn(tr.cmd, timeout, outcome)>>)

\* executeCommand without the translation: the command runs as given.
afterBridge_Untranslated(win, command, timeout, outcome, bridge) ==
  IF IsSome(bridge.value)
  THEN Returned(IF IsSome(bridge.value[1].output)
                THEN OrElse(bridge.value[1].output[1], "Command executed with no output")
                ELSE "Command executed with no output",
                bridge.spawns, <<>>)
  ELSE IF win
  THEN DirectResult(execSync(command, outcome, "cmd.exe"),
                    bridge.spawns \o <<Spawn(command, timeout, outcome)>>)
  ELSE CaughtResult(execSync(command, outcome, "/bin/sh"),
                    bridge.spawns \o <<Spawn(command, timeout, outcome)>>)

\* executeCommand after the bridge was tried (bridge) or skipped.
afterBridge(win, command, timeout, outcome, bridge) ==
  IF IsSome(bridge.value)
  THEN Returned(IF IsSome(bridge.value[1].output)
                THEN OrElse(bridge.value[1].output[1], "Command executed with no output")
                ELSE "Command executed with no output",
                bridge.spawns, <<>>)
  ELSE IF win
  THEN DirectResult(execSync(command, outcome, "cmd.exe"),
                    bridge.spawns \o <<Spawn(command, timeout, outcome)>>)
  ELSE runTranslated(Translate(command), timeout, outcome, bridge.spawns)

\* executeCommand(command, options) of src/index.ts, where options is {} or
\* { timeout }.  The value is the text of the returned Buffer, or the
\* message of the thrown Error.
executeCommand(win, container, bridgeEnabled, command, timeout, reply, outcome) ==
  afterBridge(win, command, timeout, outcome,
              IF ~win /\ container /\ bridgeEnabled
              THEN requestWindowsCommand(bridgeEnabled, command, timeout, reply)
              ELSE [value |-> None, spawns |-> <<>>])

(***************************************************************************)
(* src/index.ts: the tools.                                                *)
(***************************************************************************)

\* get_system_info on Windows, detail basic: the script between the quotes
WinSystemInfoBasic ==
  "$OS = Get-CimInstance Win32_OperatingSystem; $CS = Get-CimInstance"
  \o " Win32_ComputerSystem; $Processor = Get-CimInstance Win32_Processo"
  \o "r; Write-Output 'OS: ' $OS.Caption $OS.Version; Write-Output 'Comp"
  \o "uter: ' $CS.Manufacturer $CS.Model; Write-Output 'CPU: ' $Processo"
  \o "r.Name; Write-Output 'Memory: ' [math]::Round($OS.TotalVisibleMemo"
  \o "rySize/1MB, 2) 'GB'"

\* get_system_info on Windows, detail full: the script between the quotes
WinSystemInfoFull ==
  "$OS = Get-CimInstance Win32_OperatingSystem; $CS = Get-CimInstance"
  \o " Win32_ComputerSystem; $Processor = Get-CimInstance Win32_Processo"
  \o "r; $Disk = Get-CimInstance Win32_LogicalDisk -Filter 'DriveType=3'"
  \o "; $Network = Get-CimInstance Win32_NetworkAdapterConfiguration | W"
  \o "here-Object {$_.IPAddress -ne $null}; Write-Output '=== OPERATING "
  \o "SYSTEM ==='; Write-Output ('OS: ' + $OS.Caption + ' ' + $OS.Versio"
  \o "n); Write-Output ('Architecture: ' + $OS.OSArchitecture); Write-Ou"
  \o "tput ('Install Date: ' + $OS.InstallDate); Write-Output ('Last Boo"
  \o "t: ' + $OS.LastBootUpTime); Write-Output (''; '=== HARDWARE ===');"
  \o " Write-Output ('Manufacturer: ' + $CS.Manufacturer); Write-Output "
  \o "('Model: ' + $CS.Model); Write-Output ('Serial Number: ' + (Get-Ci"
  \o "mInstance Win32_BIOS).SerialNumber); Write-Output ('Processor: ' +"
  \o " $Processor.Name); Write-Output ('Cores: ' + $Processor.NumberOfCo"
  \o "res); Write-Output ('Logical Processors: ' + $Processor.NumberOfLo"
  \o "gicalProcessors); Write-Output ('Memory: ' + [math]::Round($OS.Tot"
  \o "alVisibleMemorySize/1MB, 2) + ' GB'); Write-Output (''; '=== STORA"
  \o "GE ==='); foreach($drive in $Disk) { Write-Output ('Drive ' + $dri"
  \o "ve.DeviceID + ' - ' + [math]::Round($drive.Size/1GB, 2) + ' GB (Fr"
  \o "ee: ' + [math]::Round($drive.FreeSpace/1GB, 2) + ' GB)') }; Write-"
  \o "Output (''; '=== NETWORK ==='); foreach($adapter in $Network) { Wr"
  \o "ite-Output ('Adapter: ' + $adapter.Description); Write-Output ('  "
  \o "IP Address: ' + ($adapter.IPAddress[0])); Write-Output ('  MAC Add"
  \o "ress: ' + $adapter.MACAddress); Write-Output ('  Gateway: ' + ($ad"
  \o "apter.DefaultIPGateway -join ', ')); }"

\* get_system_info elsewhere, detail basic
UnixSystemInfoBasic ==
  "uname -a && echo 'CPU:' && lscpu | grep 'Model name' && echo 'Memo"
  \o "ry:' && free -h | head -n 2"

\* get_system_info elsewhere, detail full
UnixSystemInfoFull ==
  "echo '=== OPERATING SYSTEM ===' && uname -a && echo && echo '=== H"
  \o "ARDWARE ===' && lscpu && echo && echo '=== MEMORY ===' && free -h "
  \o "&& echo && echo '=== STORAGE ===' && df -h && echo && echo '=== NE"
  \o "TWORK ===' && ip addr"

\* get_network_info on Windows: the loop over $adapters
WinNetworkInfoLoop ==
  "foreach($adapter in $adapters) { Write-Output ('======== ' + $adap"
  \o "ter.Name + ' (' + $adapter.Status + ') ========'); Write-Output ('"
  \o "Interface Description: ' + $adapter.InterfaceDescription); Write-O"
  \o "utput ('MAC Address: ' + $adapter.MacAddress); Write-Output ('Link"
  \o " Speed: ' + $adapter.LinkSpeed); $ipconfig = Get-NetIPConfiguratio"
  \o "n -InterfaceIndex $adapter.ifIndex; Write-Output ('IP Address: ' +"
  \o " ($ipconfig.IPv4Address.IPAddress -join ', ')); Write-Output ('Sub"
  \o "net: ' + ($ipconfig.IPv4Address.PrefixLength -join ', ')); Write-O"
  \o "utput ('Gateway: ' + ($ipconfig.IPv4DefaultGateway.NextHop -join '"
  \o ", ')); Write-Output ('DNS Servers: ' + ($ipconfig.DNSServer.Server"
  \o "Addresses -join ', ')); Write-Output ''; }"

\* dangerousPatterns of the execute_command tool
dangerousPatterns ==
  << "net user", "net localgroup", "netsh", "format", "rd /s", "rmdir /s",
     "del /f", "reg delete", "shutdown", "taskkill", "sc delete", "bcdedit",
     "cacls", "icacls", "takeown", "diskpart", "cipher /w", "schtasks /create",
     "rm -rf", "sudo", "chmod 777", "chown", "passwd", "mkfs", "dd if=/dev/zero" >>

\* dangerousPatterns of the execute_powershell tool
scriptDangerousPatterns ==
  << "new-user", "add-user", "remove-item -recurse -force", "format-volume",
     "reset-computer", "stop-computer", "restart-computer", "stop-process -force",
     "remove-item -force", "set-executionpolicy", "invoke-webrequest",
     "start-bitstransfer", "set-location", "invoke-expression", "iex", "& {",
     "invoke-command", "new-psdrive", "remove-psdrive", "enable-psremoting",
     "new-service", "remove-service", "set-service" >>

\* dangerousPatterns.some(pattern => lower.includes(pattern.toLowerCase()))
SomePattern(commandLower, patterns) ==
  \E i \in 1..Len(patterns) : Includes(commandLower, ToLowerCase(patterns[i]))

\* The variant that compares the text as typed.
ContainsAny_CaseSensitive(text, patterns) == SomePattern(text, patterns)

ContainsAny(text, patterns) == SomePattern(ToLowerCase(text), patterns)

\* What a tool callback yields.
ToolOut(res, sp, gl) == [result |-> res, spawns |-> sp, guardLog |-> gl]

\* try { stdout = await executeCommand(cmd); text } catch (error) { isError }
Wrap(r, errorPrefix, suffix) ==
  IF r.threw
  THEN ToolOut(ErrorResult(errorPrefix \o "Error: " \o r.value), r.spawns, r.guardLog)
  ELSE ToolOut(TextResult(r.value \o suffix), r.spawns, r.guardLog)

ContainerInfoNote(what) ==
  "\n\nNote: This information is from the Linux container, not your Windows host. To access Windows "
  \o what \o " information, you need to set up the Windows bridge or run this server directly on Windows."

\* list_running_processes
list_running_processes_tool(win, container, bridgeEnabled, filter, reply, outcome) ==
  LET cmd == IF win
             THEN "powershell.exe -Command \"Get-Process"
                  \o (IF Truthy(filter)
                      THEN " | Where-Object { $_.ProcessName -like '*" \o filter[1] \o "*' }"
                      ELSE "")
                  \o " | Select-Object Id, ProcessName, CPU, WorkingSet, Description | Format-Table -AutoSize | Out-String\""
             ELSE "ps aux" \o (IF Truthy(filter) THEN " | grep -i " \o filter[1] ELSE "")
  IN  Wrap(executeCommand(win, container, bridgeEnabled, cmd, None, reply, outcome),
           "Error listing processes: ", "")

\* get_system_info
get_system_info_tool(win, container, bridgeEnabled, detail, reply, outcome) ==
  LET cmd == IF win
             THEN "powershell.exe -Command \""
                  \o (IF detail = "basic" THEN WinSystemInfoBasic ELSE WinSystemInfoFull)
                  \o "\""
             ELSE IF detail = "basic" THEN UnixSystemInfoBasic ELSE UnixSystemInfoFull
  IN  Wrap(executeCommand(win, container, bridgeEnabled, cmd, None, reply, outcome),
           "Error retrieving system info: ",
           IF ~win /\ container THEN ContainerInfoNote("system") ELSE "")

\* get_network_info
get_network_info_tool(win, container, bridgeEnabled, networkInterface, reply, outcome) ==
  LET cmd == IF win
             THEN "powershell.exe -Command \""
                  \o (IF Truthy(networkInterface)
                      THEN "$adapters = Get-NetAdapter | Where-Object { $_.Name -like '*"
                           \o networkInterface[1] \o "*' }; "
                      ELSE "$adapters = Get-NetAdapter; ")
                  \o WinNetworkInfoLoop \o "\""
             ELSE IF Truthy(networkInterface)
                  THEN "ip addr show " \o networkInterface[1]
                  ELSE "ip addr"
  IN  Wrap(executeCommand(win, container, bridgeEnabled, cmd, None, reply, outcome),
           "Error retrieving network info: ",
           IF ~win /\ container THEN ContainerInfoNote("network") ELSE "")

WindowsOnly(what) ==
  "The " \o what \o " tool is only available on Windows. Current platform: " \o HostPlatform
  \o "\n\nTo use this feature in a container, you need to set up the Windows bridge server."

\* get_scheduled_tasks
get_scheduled_tasks_tool(win, container, bridgeEnabled, action, taskName, reply, outcome) ==
  IF ~win /\ ~bridgeEnabled
  THEN ToolOut(TextResult(WindowsOnly("scheduled tasks")), <<>>, <<>>)
  ELSE IF action = "query" \/ (action = "status" /\ Truthy(taskName))
  THEN LET body ==
             IF action = "query"
             THEN IF Truthy(taskName)
                  THEN "Get-ScheduledTask -TaskName '" \o taskName[1]
                       \o "' | Format-List TaskName, State, Description, Author, LastRunTime, NextRunTime, LastTaskResult"
                  ELSE "Get-ScheduledTask | Select-Object TaskName, State, Description | Format-Table -AutoSize | Out-String"
             ELSE "Get-ScheduledTask -TaskName '" \o taskName[1] \o "' | Format-List *; "
                  \o "Get-ScheduledTaskInfo -TaskName '" \o taskName[1] \o "' | Format-List *"
           cmd == "powershell.exe -Command \"" \o body \o "\""
       IN  Wrap(executeCommand(win, container, bridgeEnabled, cmd, None, reply, outcome),
                "Error retrieving scheduled tasks: ", "")
  ELSE ToolOut(ErrorResult("For 'status' action, taskName parameter is required"), <<>>, <<>>)

\* get_service_info
get_service_info_tool(win, container, bridgeEnabled, action, serviceName, reply, outcome) ==
  IF ~win /\ ~bridgeEnabled
  THEN ToolOut(TextResult(WindowsOnly("service info")), <<>>, <<>>)
  ELSE IF action = "query" \/ (action = "status" /\ Truthy(serviceName))
  THEN LET body ==
             IF action = "query"
             THEN IF Truthy(serviceName)
                  THEN "Get-Service -Name '" \o serviceName[1]
                       \o "' | Format-List Name, DisplayName, Status, StartType, Description"
                  ELSE "Get-Service | Select-Object Name, DisplayName, Status, StartType | Format-Table -AutoSize | Out-String"
             ELSE "Get-Service -Name '" \o serviceName[1] \o "' | Format-List *; "
                  \o "Get-CimInstance -ClassName Win32_Service -Filter \"Name='"
                  \o serviceName[1] \o "'\" | Format-List *"
           cmd == "powershell.exe -Command \"" \o body \o "\""
       IN  Wrap(executeCommand(win, container, bridgeEnabled, cmd, None, reply, outcome),
                "Error retrieving service info: ", "")
  ELSE ToolOut(ErrorResult("For 'status' action, serviceName parameter is required"), <<>>, <<>>)

\* The note execute_command appends in a container.
ContainerCommandNote(bridgeEnabled) ==
  "\n\nNote: This command was executed in a Linux container. Results may differ from your Windows host environment."
  \o (IF bridgeEnabled
      THEN " Command was attempted to be sent to Windows host via bridge server."
      ELSE " To execute directly on Windows, enable the Windows bridge server.")

\* The callback of a guarded tool after executeCommand returned or threw r.
GuardedResult(r, gl, errorPrefix, emptyText, note) ==
  IF r.threw
  THEN ToolOut(ErrorResult(errorPrefix \o "Error: " \o r.value), r.spawns, gl)
  ELSE ToolOut(TextResult(OrElse(r.value, emptyText) \o note), r.spawns, gl)

\* One line of the listing: "- name: about".
Listed(name, about) == [name |-> name, about |-> about]
ListedLines(entries) ==
  Join([i \in 1..Len(entries) |-> "- " \o entries[i].name \o ": " \o entries[i].about], "\n")

\* The commands list_allowed_commands names for the platform.
AllowedListing(win, container) ==
  IF win
  THEN << Listed("powershell.exe", "Used for most system operations"),
          Listed("cmd.exe", "Used for simple command execution") >>
  ELSE << Listed("ls", "List directory contents"), Listed("ps", "List processes"),
          Listed("uname", "Print system information"),
          Listed("ip", "Show network information") >>
       \o (IF container
           THEN << Listed("cat", "Display file contents"),
                   Listed("grep", "Search text patterns"),
                   Listed("find", "Search for files") >>
           ELSE <<>>)

\* list_allowed_commands
list_allowed_commands_tool(win, container, bridgeEnabled) ==
  ToolOut(TextResult(
    IF win
    THEN "The following commands are allowed to be executed by this server:\n\n"
         \o ListedLines(AllowedListing(win, container)) \o "\n\n"
         \o "Note: All commands are executed with the same privileges as the user running this server."
    ELSE IF container
    THEN "Running in a Linux container environment.\n\n"
         \o (IF bridgeEnabled
             THEN "Windows Bridge enabled: Commands will be sent to the Windows host when possible.\n\n"
             ELSE "Windows Bridge not enabled: Windows-specific commands will be adapted for Linux or may not work.\n\n")
         \o "Available Linux commands:\n"
         \o ListedLines(AllowedListing(win, container)) \o "\n\n"
         \o "Command translation active:\n- dir → ls -la\n- ipconfig → ip addr\n"
         \o "- tasklist → ps aux\n- systeminfo → uname -a && lscpu && free -h\n\n"
         \o "Note: All commands are executed with the same privileges as the user running this container."
    ELSE "Running on non-Windows platform: " \o HostPlatform \o "\n\n"
         \o "Standard Unix/Linux commands are available, but Windows-specific commands like powershell.exe and cmd.exe are not available in this environment.\n\n"
         \o "The following commands should work:\n"
         \o ListedLines(AllowedListing(win, container)) \o "\n\n"
         \o "Note: All commands are executed with the same privileges as the user running this server."),
    <<>>, <<>>)

\* execute_command
execute_command_tool(win, container, bridgeEnabled, command, timeout, reply, outcome) ==
  IF ContainsAny(command, dangerousPatterns)
  THEN ToolOut(ErrorResult("Command contains potentially dangerous operations and cannot be executed."),
               <<>>, <<Guard(command, FALSE)>>)
  ELSE GuardedResult(executeCommand(win, container, bridgeEnabled,
                                    IF win THEN "cmd.exe /c " \o command ELSE command,
                                    Some(timeout), reply, outcome),
                     <<Guard(command, TRUE)>>,
                     "Error executing command: ",
                     "Command executed successfully (no output)",
                     IF ~win /\ container /\ ~StartsWith(command, "find ")
                        /\ ~Includes(command, "grep")
                     THEN ContainerCommandNote(bridgeEnabled) ELSE "")

\* execute_powershell
execute_powershell_tool(win, container, bridgeEnabled, script, timeout, reply, outcome) ==
  IF ~win /\ ~bridgeEnabled
  THEN ToolOut(TextResult("The PowerShell execution tool is only available on Windows or when Windows bridge is enabled. Current platform: "
                          \o HostPlatform), <<>>, <<>>)
  ELSE IF ContainsAny(script, scriptDangerousPatterns)
  THEN ToolOut(ErrorResult("Script contains potentially dangerous operations and cannot be executed."),
               <<>>, <<Guard(script, FALSE)>>)
  ELSE GuardedResult(executeCommand(win, container, bridgeEnabled,
                                    "powershell.exe -Command \"" \o script \o "\"",
                                    Some(timeout), reply, outcome),
                     <<Guard(script, TRUE)>>,
                     "Error executing PowerShell script: ",
                     "PowerShell script executed successfully (no output)",
                     "")

(***************************************************************************)
(* The server of src/index.ts as a state machine.                          *)
(***************************************************************************)

IndexFirstWords == {"git log", "del", "dir /b", "DIR", "echo", "reg", "Shutdown",
                    "cmd.exe /c dir \"a b\"", "grep", "grep regex"}
IndexArgWords == {"-rf", "&& shutdown /s", "&& dir"}
IndexCommands ==
  {Join(<<b>> \o a, " ") : b \in IndexFirstWords,
                           a \in UNION {[1..n -> IndexArgWords] : n \in 0..MaxArgs}}

IndexRequests ==
  {Request("execute_command", Some(c), t, "", "") : c \in IndexCommands, t \in Timeouts}
  \cup {Request("execute_powershell", Some(sc), t, "", "") :
          sc \in {"Get-Date", "Stop-Computer", "Write-Output 'hi'"}, t \in Timeouts}
  \cup {Request("list_running_processes", f, None, "", "") :
          f \in {None, Some("node"), Some("x; rm -rf /tmp/x")}}
  \cup {Request("get_system_info", None, None, d, "") : d \in {"basic", "full"}}
  \cup {Request("get_network_info", n, None, "", "") : n \in {None, Some("eth0")}}
  \cup {Request(tool, n, None, a, "") :
          tool \in {"get_scheduled_tasks", "get_service_info"},
          n \in {None, Some("Backup")}, a \in {"query", "status"}}
  \cup {Request("list_allowed_commands", None, None, "", "")}

IndexInit ==
  /\ argv = <<>>
  /\ configFile = FileMissing
  /\ allowedCommands = <<>>
  /\ procState = "running"
  /\ projects = {}
  /\ isWindows \in BOOLEAN
  /\ isContainer \in BOOLEAN
  /\ BRIDGE_ENABLED \in BOOLEAN
  /\ pc = "idle"
  /\ req = NoReq
  /\ result = None
  /\ spawns = <<>>
  /\ guardLog = <<>>
  /\ clock = 0
  /\ files = {}
  /\ ps = <<>>
  /\ bridgeHost = BridgeHostIdle
  /\ cp = <<>>

IndexReceive ==
  /\ pc = "idle"
  /\ \E r \in IndexRequests : req' = r
  /\ pc' = "pending"
  /\ result' = None
  /\ spawns' = <<>>
  /\ guardLog' = <<>>
  /\ UNCHANGED <<Startup, projects, psVars, hostVars>>

\* The tool callback finished with out.
IndexFinish(out) ==
  /\ result' = Some(out.result)
  /\ spawns' = out.spawns
  /\ guardLog' = out.guardLog
  /\ pc' = "done"
  /\ UNCHANGED <<Startup, req, projects, psVars, hostVars>>

\* What the tool callback of request r yields when the bridge answers
\* reply and the local child does outcome.
IndexTool(r, reply, outcome) ==
  CASE r.name = "execute_command" ->
         execute_command_tool(isWindows, isContainer, BRIDGE_ENABLED, r.arg[1],
                              schemaTimeout(r.timeout), reply, outcome)
    [] r.name = "execute_powershell" ->
         execute_powershell_tool(isWindows, isContainer, BRIDGE_ENABLED, r.arg[1],
                                 schemaTimeout(r.timeout), reply, outcome)
    [] r.name = "list_running_processes" ->
         list_running_processes_tool(isWindows, isContainer, BRIDGE_ENABLED, r.arg,
                                     reply, outcome)
    [] r.name = "get_system_info" ->
         get_system_info_tool(isWindows, isContainer, BRIDGE_ENABLED, r.mode, reply, outcome)
    [] r.name = "get_network_info" ->
         get_network_info_tool(isWindows, isContainer, BRIDGE_ENABLED, r.arg, reply, outcome)
    [] r.name = "get_scheduled_tasks" ->
         get_scheduled_tasks_tool(isWindows, isContainer, BRIDGE_ENABLED, r.mode, r.arg,
                                  reply, outcome)
    [] r.name = "get_service_info" ->
         get_service_info_tool(isWindows, isContainer, BRIDGE_ENABLED, r.mode, r.arg,
                               reply, outcome)
    [] r.name = "list_allowed_commands" ->
         list_allowed_commands_tool(isWindows, isContainer, BRIDGE_ENABLED)

IndexHandling(name) == pc = "pending" /\ req.name = name

\* The bridge is asked only from a container that is not Windows with the
\* bridge enabled; a local child runs only when the bridge gave no answer.
NoReply == [kind |-> "unreachable", output |-> None, error |-> None]
NoOutcome == [kind |-> "ok", stdout |-> "", stderr |-> ""]
RepliesHere ==
  IF ~isWindows /\ isContainer /\ BRIDGE_ENABLED THEN BridgeReplies ELSE {NoReply}
OutcomesAfter(reply, timeout) ==
  IF reply.kind = "unreachable" THEN ExecOutcomes(timeout) ELSE {NoOutcome}

list_running_processes ==
  /\ IndexHandling("list_running_processes")
  /\ \E reply \in RepliesHere : \E o \in OutcomesAfter(reply, None) :
       IndexFinish(list_running_processes_tool(isWindows, isContainer, BRIDGE_ENABLED,
                                               req.arg, reply, o))

get_system_info ==
  /\ IndexHandling("get_system_info")
  /\ \E reply \in RepliesHere : \E o \in OutcomesAfter(reply, None) :
       IndexFinish(get_system_info_tool(isWindows, isContainer, BRIDGE_ENABLED,
                                        req.mode, reply, o))

get_network_info ==
  /\ IndexHandling("get_network_info")
  /\ \E reply \in RepliesHere : \E o \in OutcomesAfter(reply, None) :
       IndexFinish(get_network_info_tool(isWindows, isContainer, BRIDGE_ENABLED,
                                         req.arg, reply, o))

get_scheduled_tasks ==
  /\ IndexHandling("get_scheduled_tasks")
  /\ \E reply \in RepliesHere : \E o \in OutcomesAfter(reply, None) :
       IndexFinish(get_scheduled_tasks_tool(isWindows, isContainer, BRIDGE_ENABLED,
                                            req.mode, req.arg, reply, o))

get_service_info ==
  /\ IndexHandling("get_service_info")
  /\ \E reply \in RepliesHere : \E o \in OutcomesAfter(reply, None) :
       IndexFinish(get_service_info_tool(isWindows, isContainer, BRIDGE_ENABLED,
                                         req.mode, req.arg, reply, o))

execute_command ==
  /\ IndexHandling("execute_command")
  /\ \E reply \in RepliesHere :
       \E o \in OutcomesAfter(reply, Some(schemaTimeout(req.timeout))) :
         IndexFinish(execute_command_tool(isWindows, isContainer, BRIDGE_ENABLED,
                                          req.arg[1], schemaTimeout(req.timeout),
                                          reply, o))

execute_powershell ==
  /\ IndexHandling("execute_powershell")
  /\ \E reply \in RepliesHere :
       \E o \in OutcomesAfter(reply, Some(schemaTimeout(req.timeout))) :
         IndexFinish(execute_powershell_tool(isWindows, isContainer, BRIDGE_ENABLED,
                                             req.arg[1], schemaTimeout(req.timeout),
                                             reply, o))

list_allowed_commands ==
  /\ IndexHandling("list_allowed_commands")
  /\ IndexFinish(list_allowed_commands_tool(isWindows, isContainer, BRIDGE_ENABLED))

IndexNext ==
  \/ IndexReceive
  \/ list_running_processes
  \/ get_system_info
  \/ get_network_info
  \/ get_scheduled_tasks
  \/ get_service_info
  \/ execute_command
  \/ execute_powershell
  \/ list_allowed_commands
  \/ Respond

SpecIndex == IndexInit /\ [][IndexNext]_vars

(***************************************************************************)
(* Properties of the server of src/index.ts.                               *)
(***************************************************************************)

\* The text holds one of the patterns somewhere, letters compared ignoring
\* case.
HasBlockedSubstring(text, patterns) ==
  \E i \in 1..Len(patterns) :
    \E p \in 1..(Len(text) - Len(patterns[i]) + 1) :
      EqualsIgnoreCase(SubSeq(text, p, p + Len(patterns[i]) - 1), patterns[i])

DenialText == "Command contains potentially dangerous operations and cannot be executed."

\* executeCommand was called: it asked the bridge or spawned a child, or it
\* refused to translate the command.
PassedToExecuteCommand ==
  \/ spawns # <<>>
  \/ StartsWith(result[1].text, "Command execution failed: Error: The command '")

\* C3: execute_command of src/index.ts denies a command exactly when its
\* full text holds a blocked substring somewhere, compared ignoring case;
\* a denied command never reaches executeCommand and every other command
\* does.
C3_DeniedIffBlockedSubstring ==
  Done("execute_command") =>
    /\ HasBlockedSubstring(req.arg[1], dangerousPatterns)
         <=> (result[1].isError /\ result[1].text = DenialText)
    /\ HasBlockedSubstring(req.arg[1], dangerousPatterns)
         => (spawns = <<>> /\ guardLog = <<Guard(req.arg[1], FALSE)>>)
    /\ ~HasBlockedSubstring(req.arg[1], dangerousPatterns)
         => (PassedToExecuteCommand /\ guardLog = <<Guard(req.arg[1], TRUE)>>)

\* A command whose base token is harmless was denied for a blocked
\* substring further on, and nothing was spawned.
C3_Witness ==
  /\ Done("execute_command")
  /\ req.arg[1] = "git log && shutdown /s"
  /\ result[1] = ErrorResult(DenialText)
  /\ spawns = <<>>

\* A spawn of the command itself, not of the curl that asks the bridge.
LocalSpawn(sp) == ~StartsWith(sp.cmd, "curl ")

\* C4: on a host that is not Windows the string handed to the local child
\* process holds none of the blocked substrings.
C4_ExecutedStringNotBlocked ==
  (~isWindows /\ Done("execute_command")) =>
    \A i \in 1..Len(spawns) :
      LocalSpawn(spawns[i]) => ~HasBlockedSubstring(spawns[i].cmd, dangerousPatterns)

\* The local child of the request timed out.
ChildTimedOut ==
  \E i \in 1..Len(spawns) : LocalSpawn(spawns[i]) /\ spawns[i].kind = "timeout"

\* A child that ran and exited non-zero.
NonZeroExits == {o \in ExecOutcomes(Some(1)) : o.kind = "nonzero"}

\* C9: when the child is killed at its timeout the caller gets an error
\* result, and not the result the same request gets when the child exits
\* non-zero.
C9_TimeoutYieldsTimedOut ==
  (pc = "done" /\ ChildTimedOut) =>
    /\ result[1].isError
    /\ \A o \in NonZeroExits : IndexTool(req, NoReply, o).result # result[1]

\* The local child of the request failed to start, exited non-zero or
\* timed out.
ChildFailed ==
  \E i \in 1..Len(spawns) :
    LocalSpawn(spawns[i]) /\ spawns[i].kind \in {"spawnfail", "nonzero", "timeout"}

\* C10: a failed execution reaches the caller as an error result.
C10_FailureReportedAsError ==
  (pc = "done" /\ ChildFailed) => result[1].isError

\* Rule k has a target and its source token is the leading token of c.
LeadsWith(c, k) ==
  /\ IsSome(commandMappings[k].linux)
  /\ Len(c) >= Len(commandMappings[k].win)
  /\ EqualsIgnoreCase(SubSeq(c, 1, Len(commandMappings[k].win)), commandMappings[k].win)
  /\ (Len(c) = Len(commandMappings[k].win)
        \/ ~IsWordChar(CharAt(c, Len(commandMappings[k].win) + 1)))

\* c with its first n characters replaced by target.
WithLeadingToken(c, n, target) == target \o SubSeq(c, n + 1, Len(c))

\* C13: on a host that is not Windows, a single command (no chaining
\* separator) whose leading token is the source of a rule with a target
\* is executed as exactly that command with the token replaced by the
\* target: 'dir /b' runs as 'ls -la /b'.
C13_LeadingTokenReplaced ==
  (~isWindows /\ Done("execute_command") /\ ~Includes(req.arg[1], "&&")) =>
    \A k \in 1..Len(commandMappings) :
      LeadsWith(req.arg[1], k) =>
        \A i \in 1..Len(spawns) :
          LocalSpawn(spawns[i]) =>
            spawns[i].cmd = WithLeadingToken(req.arg[1], Len(commandMappings[k].win),
                                             commandMappings[k].linux[1])

\* The translation refused the command: the text executeCommand returns.
RejectionText(token) ==
  "Command execution failed: Error: The command '" \o token
  \o "' is not supported in Linux environment"

\* An execute_command request reached the translation: the host is not
\* Windows, no bridge is tried and the pattern check let the command pass.
ReachedTranslation ==
  /\ ~isWindows /\ ~(isContainer /\ BRIDGE_ENABLED)
  /\ Done("execute_command")
  /\ \A i \in 1..Len(guardLog) : guardLog[i].allow

\* token stands at the start of c or right after a chaining separator.
AtCommandPosition(c, token) == RegexExec(c, cmdRegex(token)).found

\* C14: the translation rejects a command only when the source token of a
\* rule without target ('net user', 'reg') stands at the start of the
\* command or right after a chaining separator; a command with no rule's
\* token at such a position, and no interpreter wrapper, is executed as
\* given.
C14_RejectsOnlyAtCommandPosition ==
  ReachedTranslation =>
    /\ \A k \in 1..Len(commandMappings) :
         StartsWith(result[1].text, RejectionText(commandMappings[k].win)) =>
           AtCommandPosition(req.arg[1], commandMappings[k].win)
    /\ (/\ StripWrappers(req.arg[1]) = req.arg[1]
        /\ \A k \in 1..Len(commandMappings) :
             ~AtCommandPosition(req.arg[1], commandMappings[k].win)) =>
         (Len(spawns) = 1 /\ spawns[1].cmd = req.arg[1])

\* C15: when the translation rejects a command (the source token of a
\* rule without target stands at a command position), no child process is
\* started and the invocation returns an error result whose message names
\* the token.
C15_RejectionIsErrorResult ==
  ReachedTranslation =>
    \A k \in 1..Len(commandMappings) :
      (~IsSome(commandMappings[k].linux)
         /\ AtCommandPosition(req.arg[1], commandMappings[k].win)) =>
        /\ spawns = <<>>
        /\ Includes(result[1].text, "'" \o commandMappings[k].win \o "'")
        /\ result[1].isError

\* The command of the request was executed exactly as it was given.
ExecutedUnchanged ==
  ReachedTranslation /\ Len(spawns) = 1 /\ spawns[1].cmd = req.arg[1]

BridgeCameBack(kind) ==
  pc = "done" /\ Len(spawns) >= 1 /\ ~LocalSpawn(spawns[1]) /\ spawns[1].kind = kind

\* C17: when the bridge cannot be reached, the invocation goes on locally:
\* either the translation rejects the command, or the translated command
\* is run by a local child, and when that child succeeds the invocation
\* does not fail.
C17_BridgeFailureFallsBack ==
  BridgeCameBack("unreachable") =>
    \/ /\ Len(spawns) = 1
       /\ Includes(result[1].text, "is not supported in Linux environment")
    \/ /\ Len(spawns) = 2 /\ LocalSpawn(spawns[2])
       /\ req.name = "execute_command" => spawns[2].cmd = Translate(req.arg[1]).cmd
       /\ spawns[2].kind = "ok" =>
            (~result[1].isError /\ ~Includes(result[1].text, "Command execution failed"))

C17_Witness ==
  /\ BridgeCameBack("unreachable") /\ req.name = "execute_command"
  /\ Len(spawns) = 2 /\ spawns[2].cmd = " ls -la /b" /\ spawns[2].kind = "ok"
  /\ ~result[1].isError /\ StartsWith(result[1].text, "out")

\* C18: when the bridge answers with an error envelope, the invocation
\* returns an error result that carries the envelope's message.
C18_BridgeErrorIsErrorResult ==
  BridgeCameBack("error") =>
    (result[1].isError /\ Includes(result[1].text, "Command not allowed"))

(***************************************************************************)
(* SystemInfoManager.executePowerShell, several invocations overlapping in *)
(* time.  The code of an invocation runs without interruption up to its    *)
(* `await execAsync(...)` (PSStart) and again from the settling of that    *)
(* promise to its end (PSFinish); in between the interpreter it spawned    *)
(* opens the script file (PSChildReads), other invocations start or        *)
(* finish, and the clock advances (PSTick).                                *)
(***************************************************************************)

MaxInvocations == 2   \* invocations that may overlap
MaxClock == 1         \* milliseconds that pass

\* path.join(os.tmpdir(), `ps_script_${Date.now()}.ps1`)
tempScriptPath(now) == "/tmp/ps_script_" \o ToString(now) \o ".ps1"

\* `powershell -ExecutionPolicy Bypass -File "${tempScriptPath}"`
psCommand(path) == "powershell -ExecutionPolicy Bypass -File \"" \o path \o "\""

\* fs.writeFileSync(path, body): the file at path now holds body (owner is
\* the invocation that wrote it).
writeFileSync(fs, path, owner, body) ==
  {f \in fs : f.path # path} \cup {[path |-> path, owner |-> owner, body |-> body]}

\* The cleanup left out.
unlinkSync_Skipped(fs, path) == fs

\* fs.unlinkSync(path) inside try/catch: the file is gone afterwards; when
\* there was none the error is logged and swallowed.
unlinkSync(fs, path) == {f \in fs : f.path # path}

\* The script of invocation i.
ScriptOf(i) == "Write-Output " \o ToString(i)

PSIdle(i) ==
  [pc |-> "idle", script |-> ScriptOf(i), path |-> None, ran |-> None,
   kind |-> "", result |-> None]

PSInit ==
  /\ argv \in Argvs
  /\ configFile = FileMissing
  /\ allowedCommands = runServer(argv, configFile).allowedCommands
  /\ procState = runServer(argv, configFile).procState
  /\ projects = {}
  /\ isWindows = TRUE
  /\ isContainer = FALSE
  /\ BRIDGE_ENABLED = FALSE
  /\ pc = "idle"
  /\ req = NoReq
  /\ result = None
  /\ spawns = <<>>
  /\ guardLog = <<>>
  /\ clock = 0
  /\ files = {}
  /\ ps = [i \in 1..MaxInvocations |-> PSIdle(i)]
  /\ bridgeHost = BridgeHostIdle
  /\ cp = <<>>

PSOthers == <<Startup, projects, pc, req, result, spawns, guardLog, hostVars>>

\* How invocation i ends: its promise value and the kind of end.
PSEnd(i, kind, path, r) ==
  [ps EXCEPT ![i] = [@ EXCEPT !.pc = "done", !.kind = kind, !.path = path,
                                 !.result = Some(r)]]

\* executePowerShell from its call to `await execAsync`: the guard, the
\* path, the write (which may throw) and the spawn.  A denial throws before
\* the path is built; a failed write goes through catch and finally.
PSStart(i) ==
  /\ procState = "running"
  /\ ps[i].pc = "idle"
  /\ IF ~validateCommand(allowedCommands, "powershell").isValid
     THEN /\ ps' = PSEnd(i, "denied", None,
                         Thrown(validateCommand(allowedCommands, "powershell").reason,
                                <<>>, <<Guard("powershell", FALSE)>>))
          /\ UNCHANGED files
     ELSE \E written \in BOOLEAN :
            IF written
            THEN /\ files' = writeFileSync(files, tempScriptPath(clock), i, ps[i].script)
                 /\ ps' = [ps EXCEPT ![i] = [@ EXCEPT !.pc = "running",
                                                      !.path = Some(tempScriptPath(clock))]]
            ELSE /\ files' = unlinkSync(files, tempScriptPath(clock))
                 /\ ps' = PSEnd(i, "writefail", Some(tempScriptPath(clock)),
                                Thrown("PowerShell execution failed: ENOSPC: no space left on device, write",
                                       <<>>, <<Guard("powershell", TRUE)>>))
  /\ UNCHANGED <<PSOthers, clock>>

\* What the interpreter finds at the path it was given.
FileAt(fs, path) ==
  IF \E f \in fs : f.path = path
  THEN [found |-> TRUE, body |-> (CHOOSE f \in fs : f.path = path).body]
  ELSE [found |-> FALSE, body |-> ""]

\* The interpreter spawned for invocation i opens its -File argument.
PSChildReads(i) ==
  /\ ps[i].pc = "running"
  /\ ps[i].ran = None
  /\ ps' = [ps EXCEPT ![i] = [@ EXCEPT !.ran = Some(FileAt(files, ps[i].path[1]))]]
  /\ UNCHANGED <<PSOthers, clock, files>>

\* The ends a child can come to, given what it read: it exits 0 only after
\* running a script, and it fails to start only before reading anything.
PSOutcomes(ran, timeout) ==
  {o \in ExecOutcomes(timeout) :
     /\ o.kind = "ok" => (IsSome(ran) /\ ran[1].found)
     /\ o.kind = "spawnfail" => ran = None}

\* The promise value of executePowerShell for what execAsync gave.
PSResult(r, sp) ==
  IF r.ok
  THEN Returned(OrElse(r.stdout, "PowerShell script executed successfully (no output)"),
                sp, <<Guard("powershell", TRUE)>>)
  ELSE Thrown("PowerShell execution failed: " \o r.message, sp,
              <<Guard("powershell", TRUE)>>)

\* executePowerShell from the settling of execAsync to its end: return or
\* catch, then finally.
PSFinish(i) ==
  /\ ps[i].pc = "running"
  /\ \E o \in PSOutcomes(ps[i].ran, Some(DefaultTimeout)) :
       ps' = PSEnd(i, o.kind, ps[i].path,
                   PSResult(execAsync(psCommand(ps[i].path[1]), o),
                            <<Spawn(psCommand(ps[i].path[1]), Some(DefaultTimeout), o)>>))
  /\ files' = unlinkSync(files, ps[i].path[1])
  /\ UNCHANGED <<PSOthers, clock>>

\* A millisecond passes.
PSTick ==
  /\ clock < MaxClock
  /\ clock' = clock + 1
  /\ UNCHANGED <<PSOthers, files, ps>>

PSNext ==
  \/ \E i \in 1..MaxInvocations : PSStart(i)
  \/ \E i \in 1..MaxInvocations : PSChildReads(i)
  \/ \E i \in 1..MaxInvocations : PSFinish(i)
  \/ PSTick

SpecPS == PSInit /\ [][PSNext]_vars

C12_UniqueTempPaths ==
  /\ \A i, j \in DOMAIN ps :
       (i # j /\ ps[i].pc = "running" /\ ps[j].pc = "running") => ps[i].path # ps[j].path
  /\ \A i \in DOMAIN ps :
       IsSome(ps[i].ran) => (ps[i].ran[1].found /\ ps[i].ran[1].body = ps[i].script)

(***************************************************************************)
(* The bridge server script generated by setup_windows_bridge: one HTTP    *)
(* request at a time, the 'end' handler together with exec's callback.     *)
(***************************************************************************)

\* ALLOWED_COMMANDS.some(cmd => command.toLowerCase().startsWith(cmd.toLowerCase()))
isAllowed(allowed, command) ==
  \E i \in 1..Len(allowed) : StartsWith(ToLowerCase(command), ToLowerCase(allowed[i]))

\* res.writeHead(status); res.end(...): the status and the envelope, or the
\* plain text of the 404 answer.
Response(status, output, error) == [status |-> status, output |-> output, error |-> error]

\* What the handler did: its response, the child it started, the decision
\* of its allowlist check.
Handled(response, sp, gl) == [response |-> response, spawns |-> sp, guardLog |-> gl]

\* exec(command, options || {}, callback)
bridgeExec(command, timeout, r, gl) ==
  Handled(IF r.ok THEN Response(200, Some(r.stdout), None)
          ELSE Response(500, None, Some(r.message)),
          <<[cmd |-> command, timeout |-> timeout, kind |-> IF r.ok THEN "ok" ELSE "failed",
             stderr |-> r.stderr]>>,
          gl)

\* http.createServer((req, res) => ...) for the request r; body is None
\* when JSON.parse throws.
bridgeServer(allowed, r, outcome) ==
  IF r.method # "POST" \/ r.url # "/execute"
  THEN Handled(Response(404, Some("Not found"), None), <<>>, <<>>)
  ELSE IF r.body = None
  THEN Handled(Response(400, None, Some("Invalid request format")), <<>>, <<>>)
  ELSE IF ~isAllowed(allowed, r.body[1].command)
  THEN Handled(Response(403, None, Some("Command not allowed")), <<>>,
               <<Guard(r.body[1].command, FALSE)>>)
  ELSE bridgeExec(r.body[1].command, r.body[1].timeout,
                  execAsync(r.body[1].command, outcome),
                  <<Guard(r.body[1].command, TRUE)>>)

\* allowedCommands of setup_windows_bridge: the default and a caller's list.
BridgeAllowedLists == {<<"cmd.exe", "powershell.exe">>, <<"dir", "Echo">>}

BridgeCommands ==
  {"cmd.exe /c dir", "CMD.EXE /c dir", "cmd.exe.bat", "powershell.exe -File a.ps1",
   "dir", "dirty.exe /s", "echo hi", "format c:"}

BridgeRequests ==
  {[method |-> m, url |-> u, body |-> b] :
     m \in {"POST", "GET"}, u \in {"/execute", "/"},
     b \in {None} \cup {Some([command |-> c, timeout |-> t]) :
                          c \in BridgeCommands, t \in {None, Some(100)}}}

BridgeInit ==
  /\ argv = <<>>
  /\ configFile = FileMissing
  /\ allowedCommands \in BridgeAllowedLists
  /\ procState = "running"
  /\ projects = {}
  /\ isWindows = TRUE
  /\ isContainer = FALSE
  /\ BRIDGE_ENABLED = FALSE
  /\ pc = "idle"
  /\ req = NoReq
  /\ result = None
  /\ spawns = <<>>
  /\ guardLog = <<>>
  /\ clock = 0
  /\ files = {}
  /\ ps = <<>>
  /\ bridgeHost = BridgeHostIdle
  /\ cp = <<>>

BridgeFixed == <<argv, configFile, allowedCommands, procState, projects, isWindows,
                 isContainer, BRIDGE_ENABLED, clock, files, ps, hostVars>>

\* A request arrives.
BridgeReceive ==
  /\ pc = "idle"
  /\ \E r \in BridgeRequests : req' = r
  /\ pc' = "pending"
  /\ result' = None /\ spawns' = <<>> /\ guardLog' = <<>>
  /\ UNCHANGED BridgeFixed

BridgeFinish(h) ==
  /\ result' = Some(h.response)
  /\ spawns' = h.spawns
  /\ guardLog' = h.guardLog
  /\ pc' = "done"
  /\ UNCHANGED <<req, BridgeFixed>>

\* The request is answered.
BridgeHandle ==
  /\ pc = "pending"
  /\ \E o \in ExecOutcomes(IF req.body = None THEN None ELSE req.body[1].timeout) :
       BridgeFinish(bridgeServer(allowedCommands, req, o))

BridgeIdle ==
  /\ pc = "done"
  /\ pc' = "idle"
  /\ UNCHANGED <<req, result, spawns, guardLog, BridgeFixed>>

BridgeNext == BridgeReceive \/ BridgeHandle \/ BridgeIdle

SpecBridge == BridgeInit /\ [][BridgeNext]_vars

\* An answered POST /execute whose body was parsed.
ExecuteAnswered ==
  pc = "done" /\ req.method = "POST" /\ req.url = "/execute" /\ req.body # None

\* C19: the bridge server decides every POST /execute with the guard's
\* allowlist decision on its own ALLOWED_COMMANDS (the base token equals an
\* entry, case-insensitively): the command is executed only on Allow, and a
\* denied command gets status 403 with an error body and starts no process.
C19_BridgeRevalidates ==
  ExecuteAnswered =>
    IF validateCommand(allowedCommands, req.body[1].command).isValid
    THEN Len(spawns) = 1 /\ spawns[1].cmd = req.body[1].command
    ELSE /\ spawns = <<>>
         /\ result[1].status = 403
         /\ IsSome(result[1].error)

(***************************************************************************)
(* The dispatcher of the modular server as a fault boundary.               *)
(***************************************************************************)

\* The invocation that was just answered met a fault: the guard denied its
\* command, a child it started failed, its tool is unknown, or its
\* arguments are invalid.
Faulted ==
  /\ pc = "done"
  /\ \/ \E i \in 1..Len(guardLog) : ~guardLog[i].allow
     \/ \E i \in 1..Len(spawns) : spawns[i].kind \in {"spawnfail", "nonzero", "timeout"}
     \/ req.name \notin ToolNames
     \/ req.name = "create_project"
          /\ (~ValidProjectName(req.pname) \/ ~SupportedType(req.mode))

\* C20: once the server runs, no tool invocation ends the process: a fault
\* of an invocation is answered with an error result and the server keeps
\* running; the process has exited with code 1 only when creating the
\* server failed, before any invocation was received.
C20_FaultsStayInsideInvocation ==
  /\ Faulted => (procState = "running" /\ result[1].isError)
  /\ pc # "idle" => procState = "running"
  /\ procState = "exit1" => (createMCPServer(argv, configFile).threw /\ result = None)

C20_Witness ==
  Faulted /\ req.name \notin ToolNames /\ result[1].isError /\ procState = "running"

(***************************************************************************)
(* Properties of the modular server's results, guard and projects.         *)
(***************************************************************************)

\* C21: when the child of execute_command or execute_powershell exits
\* successfully and wrote to stderr, the invocation's result is a success
\* and the stderr text is part of what the caller gets.
C21_StderrAttached ==
  (pc = "done" /\ req.name \in {"execute_command", "execute_powershell"}) =>
    \A i \in 1..Len(spawns) :
      (spawns[i].kind = "ok" /\ spawns[i].stderr # "") =>
        (~result[1].isError /\ Includes(result[1].text, spawns[i].stderr))

\* C22: with the default allowlist, a create_project call with a valid name
\* and a supported type has none of its scaffolding commands denied by the
\* guard.
C22_DefaultListAdmitsScaffolding ==
  (/\ Done("create_project")
   /\ allowedCommands = DEFAULT_ALLOWED_COMMANDS
   /\ ValidProjectName(req.pname) /\ SupportedType(req.mode)) =>
    \A i \in 1..Len(guardLog) : guardLog[i].allow

\* The guard of execute_command admits the command.
Admitted(command) == ~ContainsAny(command, dangerousPatterns)

\* The answer of list_allowed_commands names the command.
NamedInListing(text, name) == Includes(text, "- " \o name \o ":")

\* C23: list_allowed_commands reports the policy execute_command enforces
\* in the same server instance: every command it lists is admitted, and
\* the base token of every command execute_command admits is listed.
C23_ListingIsThePolicy ==
  Done("list_allowed_commands") =>
    /\ \A i \in 1..Len(AllowedListing(isWindows, isContainer)) :
         Admitted(AllowedListing(isWindows, isContainer)[i].name)
    /\ \A c \in IndexCommands :
         Admitted(c) => NamedInListing(result[1].text, ToLowerCase(Split(c, " ")[1]))

\* The allowlist holds 'powershell' or 'powershell.exe', in any case.
PowerShellAllowed(allowed) ==
  \E i \in 1..Len(allowed) : ToLowerCase(allowed[i]) \in {"powershell", "powershell.exe"}

\* C24: execute_powershell runs the script if and only if the allowlist
\* holds 'powershell' or 'powershell.exe' (case-insensitively); otherwise
\* nothing is executed.
C24_PowerShellIffAllowed ==
  Done("execute_powershell") => (spawns # <<>> <=> PowerShellAllowed(allowedCommands))

RECURSIVE UpToWhitespace(_)
\* The characters of s before its first whitespace character (space, tab
\* or newline).
UpToWhitespace(s) ==
  IF Len(s) = 0 \/ IsSpace(CharAt(s, 1)) THEN ""
  ELSE SubSeq(s, 1, 1) \o UpToWhitespace(SubSeq(s, 2, Len(s)))

\* C25: the guard decides on the command's first word, the substring up to
\* the first whitespace character of any kind, lower-cased: execute_command
\* is admitted exactly when that word is an entry of the allowlist.
C25_BaseTokenUpToWhitespace ==
  Done("execute_command") =>
    (guardLog[1].allow <=>
       \E i \in 1..Len(allowedCommands) :
         ToLowerCase(allowedCommands[i]) = ToLowerCase(UpToWhitespace(req.arg[1])))

\* C26: after any sequence of tool invocations the allowlist held by the
\* SecurityManager is the one it had after construction; evaluating the
\* guard changes nothing.
C26_AllowlistNeverChanges ==
  allowedCommands = runServer(argv, configFile).allowedCommands

C26_Witness ==
  /\ Done("execute_command") /\ Len(guardLog) = 1 /\ guardLog[1].allow
  /\ allowedCommands = <<"Echo", "format", "cd">>

\* C27: one translation pass leaves nothing to translate: the string handed
\* to the local child is returned unchanged by a second translation, also
\* when a source token occurs more than once ('dir && dir').
C27_TranslationIdempotent ==
  ReachedTranslation =>
    \A i \in 1..Len(spawns) :
      Translate(spawns[i].cmd) = [rejected |-> FALSE, cmd |-> spawns[i].cmd, token |-> ""]

\* The wrapper prefix 'cmd.exe /c ' as the caller writes it.
CmdExePrefix == "cmd.exe /c "

\* C28: stripping a leading 'cmd.exe /c ' removes the wrapper only: the
\* string executed is the translation of the rest of the command, its
\* closing quote included.
C28_StripsOnlyTheWrapper ==
  (ReachedTranslation /\ StartsWith(req.arg[1], CmdExePrefix)) =>
    \A i \in 1..Len(spawns) :
      spawns[i].cmd
        = TranslateFrom(SubSeq(req.arg[1], Len(CmdExePrefix) + 1, Len(req.arg[1])), 1).cmd

(***************************************************************************)
(* One execute_command invocation of the src/index.ts server in a          *)
(* container, relayed to the bridge server on the Windows host.  The       *)
(* client blocks in execSync(curlCommand) while the bridge host handles    *)
(* the request; the connection can fail at any moment of that time.        *)
(***************************************************************************)

RelayCommands == {"dir /b", "cmd.exe /c dir", "echo hi", "format c:"}

RelayRequests ==
  {Request("execute_command", Some(c), t, "", "") : c \in RelayCommands, t \in Timeouts}

RelayInit ==
  /\ argv = <<>>
  /\ configFile = FileMissing
  /\ allowedCommands \in BridgeAllowedLists
  /\ procState = "running"
  /\ projects = {}
  /\ isWindows = FALSE
  /\ isContainer = TRUE
  /\ BRIDGE_ENABLED = TRUE
  /\ pc = "idle"
  /\ req = NoReq
  /\ result = None
  /\ spawns = <<>>
  /\ guardLog = <<>>
  /\ clock = 0
  /\ files = {}
  /\ ps = <<>>
  /\ bridgeHost = BridgeHostIdle
  /\ cp = <<>>

RelayFixed == <<Startup, projects, psVars, cp>>

\* The POST /execute that requestWindowsCommand sends for the request.
RelayPost ==
  [method |-> "POST", url |-> "/execute",
   body |-> Some([command |-> req.arg[1], timeout |-> Some(schemaTimeout(req.timeout))])]

\* What JSON.parse(result) gives for the bridge's response.
RelayReplyOf(response) ==
  [kind |-> IF IsSome(response.error) THEN "error" ELSE "json",
   output |-> response.output, error |-> response.error]

RelayReceive ==
  /\ pc = "idle"
  /\ \E r \in RelayRequests : req' = r
  /\ pc' = "pending"
  /\ result' = None /\ spawns' = <<>> /\ guardLog' = <<>>
  /\ bridgeHost' = BridgeHostIdle
  /\ UNCHANGED RelayFixed

\* execute_command up to execSync(curlCommand): a blocked command is
\* answered at once, any other is posted to the bridge.
RelaySend ==
  /\ pc = "pending"
  /\ IF ContainsAny(req.arg[1], dangerousPatterns)
     THEN IndexFinish(execute_command_tool(isWindows, isContainer, BRIDGE_ENABLED,
                                           req.arg[1], schemaTimeout(req.timeout),
                                           NoReply, NoOutcome))
     ELSE /\ pc' = "curl"
          /\ UNCHANGED <<req, result, spawns, guardLog, bridgeHost, RelayFixed>>

\* The bridge's request handler: a refused command is answered at once, an
\* allowed one is handed to exec.
BridgeStart ==
  /\ pc = "curl" /\ bridgeHost.pc = "idle"
  /\ bridgeHost' =
       IF isAllowed(allowedCommands, req.arg[1])
       THEN [pc |-> "executing", post |-> Some(RelayPost), ran |-> <<req.arg[1]>>,
             response |-> None]
       ELSE [pc |-> "answered", post |-> Some(RelayPost), ran |-> <<>>,
             response |-> Some(bridgeServer(allowedCommands, RelayPost, NoOutcome).response)]
  /\ UNCHANGED <<pc, req, result, spawns, guardLog, RelayFixed>>

\* exec's callback on the bridge host: the response is written.
BridgeExecDone ==
  /\ bridgeHost.pc = "executing"
  /\ \E o \in ExecOutcomes(bridgeHost.post[1].body[1].timeout) :
       bridgeHost' = [bridgeHost EXCEPT
                        !.pc = "answered",
                        !.response = Some(bridgeServer(allowedCommands, bridgeHost.post[1],
                                                       o).response)]
  /\ UNCHANGED <<pc, req, result, spawns, guardLog, RelayFixed>>

\* curl prints the bridge's response: executeCommand returns its output.
RelayReply ==
  /\ pc = "curl" /\ bridgeHost.pc = "answered"
  /\ IndexFinish(execute_command_tool(isWindows, isContainer, BRIDGE_ENABLED,
                                       req.arg[1], schemaTimeout(req.timeout),
                                       RelayReplyOf(bridgeHost.response[1]), NoOutcome))

\* curl exits non-zero (connection refused, reset or lost): requestWindowsCommand
\* returns null and executeCommand runs the command locally.
RelayRequestFails ==
  /\ pc = "curl"
  /\ \E o \in ExecOutcomes(Some(schemaTimeout(req.timeout))) :
       IndexFinish(execute_command_tool(isWindows, isContainer, BRIDGE_ENABLED,
                                        req.arg[1], schemaTimeout(req.timeout),
                                        NoReply, o))

RelayNext ==
  \/ RelayReceive
  \/ RelaySend
  \/ BridgeStart
  \/ BridgeExecDone
  \/ RelayReply
  \/ RelayRequestFails
  \/ Respond

SpecRelay == RelayInit /\ [][RelayNext]_vars

\* The local children of the invocation.
LocalRuns == {i \in 1..Len(spawns) : LocalSpawn(spawns[i])}

\* C29: the command of an invocation is executed at most once, counting
\* the bridge host and the local host together.
C29_ExecutedAtMostOnce ==
  Len(bridgeHost.ran) + Cardinality(LocalRuns) <= 1

(***************************************************************************)
(* ProjectManager.createProject, several invocations in flight at once.    *)
(* An invocation gives up control at each await: after fs.existsSync while *)
(* mkdir is pending, while a scaffolding child runs, and while rm runs.    *)
(***************************************************************************)

\* A directory under SAFE_PROJECT_ROOT that exists before the server starts.
ExistingProject == "old"

CPNames == {"app", ExistingProject}
CPTypes == {"node", "go"}

CPIdle == [pc |-> "idle", name |-> "", type |-> ""]

CPInit ==
  /\ argv = <<>>
  /\ configFile = FileMissing
  /\ allowedCommands \in {DEFAULT_ALLOWED_COMMANDS, <<"cd", "npm">>}
  /\ procState = "running"
  /\ projects = {ExistingProject}
  /\ isWindows = TRUE
  /\ isContainer = FALSE
  /\ BRIDGE_ENABLED = FALSE
  /\ pc = "idle"
  /\ req = NoReq
  /\ result = None
  /\ spawns = <<>>
  /\ guardLog = <<>>
  /\ clock = 0
  /\ files = {}
  /\ ps = <<>>
  /\ bridgeHost = BridgeHostIdle
  /\ cp = [i \in 1..MaxInvocations |-> CPIdle]

CPOthers == <<Startup, pc, req, result, spawns, guardLog, psVars, bridgeHost>>

CPGoto(i, to) == cp' = [cp EXCEPT ![i].pc = to]

\* createProject(type, name) up to `await mkdirAsync(projectPath)`: the name
\* is tested, fs.existsSync(projectPath) is asked, mkdir is started.
CPCheck(i) ==
  /\ procState = "running" /\ cp[i].pc = "idle"
  /\ \E n \in CPNames, t \in CPTypes :
       cp' = [cp EXCEPT ![i] = [pc |-> IF ~ValidProjectName(n) \/ n \in projects
                                       THEN "refused" ELSE "mkdir",
                                name |-> n, type |-> t]]
  /\ UNCHANGED <<CPOthers, projects>>

\* mkdir resolves: the directory exists.  The switch on the type and the
\* guard of runSafeCommand run in the same turn: an unsupported type or a
\* denied command throws into the catch block, otherwise the child is
\* started.
CPMkdir(i) ==
  /\ cp[i].pc = "mkdir"
  /\ projects' = projects \cup {cp[i].name}
  /\ CPGoto(i, IF ~SupportedType(cp[i].type) THEN "cleanup"
               ELSE IF runSafeCommand(allowedCommands,
                                      ScaffoldCommands(cp[i].type,
                                                       SAFE_PROJECT_ROOT \o "/" \o cp[i].name,
                                                       None)[1],
                                      NoOutcome).threw
               THEN "cleanup" ELSE "scaffold")
  /\ UNCHANGED CPOthers

\* The scaffolding child ends: createProject returns the path, or the
\* rejection of execAsync is caught.
CPChild(i) ==
  /\ cp[i].pc = "scaffold"
  /\ \E o \in ExecOutcomes(None) :
       CPGoto(i, IF runSafeCommand(allowedCommands,
                                   ScaffoldCommands(cp[i].type,
                                                    SAFE_PROJECT_ROOT \o "/" \o cp[i].name,
                                                    None)[1],
                                   o).threw
                 THEN "cleanup" ELSE "created")
  /\ UNCHANGED <<CPOthers, projects>>

\* catch: fs.promises.rm(projectPath, { recursive: true, force: true }), then
\* the error is thrown on.
CPCleanup(i) ==
  /\ cp[i].pc = "cleanup"
  /\ projects' = projects \ {cp[i].name}
  /\ CPGoto(i, "failed")
  /\ UNCHANGED CPOthers

CPNext ==
  \/ \E i \in 1..MaxInvocations : CPCheck(i)
  \/ \E i \in 1..MaxInvocations : CPMkdir(i)
  \/ \E i \in 1..MaxInvocations : CPChild(i)
  \/ \E i \in 1..MaxInvocations : CPCleanup(i)

SpecCP == CPInit /\ [][CPNext]_vars

\* C30: createProject never removes a directory it did not create: the
\* directory that existed before stays, a failed call leaves no directory
\* of its own behind, and the directory of a call that is scaffolding or
\* has returned successfully is not removed by another call's cleanup.
C30_OnlyOwnDirectoryRemoved ==
  /\ ExistingProject \in projects
  /\ \A i \in DOMAIN cp :
       /\ cp[i].pc \in {"scaffold", "created"} => cp[i].name \in projects
       /\ (cp[i].pc = "failed" /\ cp[i].name \in projects) =>
            \E j \in DOMAIN cp :
              j # i /\ cp[j].name = cp[i].name /\ cp[j].pc \in {"scaffold", "created", "cleanup"}

====
